---- MODULE Spec2Model ----
(***************************************************************************)
(* A model of the mcp-go JSON-RPC correlation engine                       *)
(* (protocol/protocol.go) on top of the transports' Send and Close.        *)
(*                                                                         *)
(* Callers are goroutines that call Request; Tasks are the transport's     *)
(* delivery goroutines that call handleMessage.  Go values are modelled    *)
(* as follows: a nil id is NilID, an empty method is "", a nil             *)
(* json.RawMessage is "nil", a nil *RPCError is <<>>, an RPCError is       *)
(* <<code, message>>, a nil error is <<>> and an error is the tuple of     *)
(* the parts of its message (fmt.Errorf with %w prepends its prefix).      *)
(***************************************************************************)
EXTENDS Integers, Sequences, FiniteSets, TLC

\* ------------------------------------------------------------- bounds ----
MaxID == 2
MaxInbound == 2
MaxNotifications == 1

\* ---------------------------------------------------------- universes ----
Callers == {"c1", "c2"}
Tasks == {"t1"}
\* The callers whose context can be cancelled or has a deadline; the others
\* call Request with context.Background().
Cancellable == {"c1"}
TransportKinds == {"stdio", "sse", "httpClient", "httpServer"}

NilID == 0
NilRaw == "nil"
NilErr == <<>>

ErrTransportClosed == <<"transport is closed">>
ErrTransportIO == <<"transport failure">>
ErrCanceled == <<"context canceled">>
ErrDeadlineExceeded == <<"context deadline exceeded">>

InboundIDs == 0..MaxID
InboundMethods == {"", "ma", "mb"}
InboundParams == {NilRaw, "{}"}
InboundResults == {NilRaw, "r1"}
InboundErrors == {NilErr, <<-32600, "Invalid Request">>}

BaseJSONRPCMessage(id, method, params, result, error) ==
    [id |-> id, method |-> method, params |-> params,
     result |-> result, error |-> error]

InboundEnvelopes ==
    { BaseJSONRPCMessage(i, m, p, r, e) :
        i \in InboundIDs, m \in InboundMethods, p \in InboundParams,
        r \in InboundResults, e \in InboundErrors }

\* What a user handler may return: a serialisable result, an error, or a
\* result that json.Marshal rejects.
HandlerReturns == {"ok", "err", "unserialisable"}

VARIABLES
    transportKind,         \* which transport the engine is connected to
    closed,                \* Close has been called on the transport
    requestID,             \* jsonRpcProtocol.requestID
    pendingRequests,       \* jsonRpcProtocol.pendingRequests: id -> channel
    responseChan,          \* per Request call: the buffered channel
    pc,                    \* per Request call: position in Request
    callID,                \* per Request call: the id it allocated
    ctxErr,                \* per Request call: ctx.Err()
    ret,                   \* per Request call: what Request returned
    cancelledOutstanding,  \* history: ctx was done while the call waited
    closedOutstanding,     \* history: Close happened while the call waited
    tpc,                   \* per delivery task: position in handleResponse
    tmsg,                  \* per delivery task: the response in hand
    tchan,                 \* per delivery task: the channel it looked up
    requestHandlers,       \* jsonRpcProtocol.requestHandlers (its keys)
    notificationHandlers,  \* jsonRpcProtocol.notificationHandlers (keys)
    sent,                  \* history: every call of transport.Send
    handlerCalls,          \* history: number of handler invocations
    dispatched,            \* history: inbound requests and notifications
    notifications,         \* history: return values of Notification
    panicked               \* a goroutine panicked (send on closed channel)

VARIABLES
    registries,            \* MCPServer.tools, .prompts, .resources
    started,               \* MCPServer.started
    listening,             \* the server's transport was started since its
                           \* last Close and takes inbound envelopes
    wpc,                   \* the goroutine in Register*/Deregister*: position
    wop,                   \* the registry operation it is in
    ops,                   \* history: number of Register*/Deregister* calls
    latest,                \* history: per key, its last successful operation
    lastResult             \* history: what the last server call returned

serverVars == <<registries, started, listening, wpc, wop, ops, latest,
                lastResult>>

VARIABLES
    muWriter,              \* MCPServer.mu is held by a writer
    muReaders,             \* the goroutines that hold MCPServer.mu as readers
    wcrit,                 \* the write being made under the write lock
    rpc,                   \* per handler goroutine: reading a registry map
    rop                    \* per handler goroutine: the read it is in

lockVars == <<muWriter, muReaders, wcrit, rpc, rop>>

VARIABLES
    paginationLimit,       \* MCPServer.paginationLimit
    walkKind,              \* the registry a peer is listing
    walk,                  \* history: the batches it was given, in order
    walkCursor,            \* the cursor it passes with its next list call
    walkState,             \* "fresh", "more" (a next cursor was given), "done"
    lastList,              \* history: the last list call and its answer
    lastCall               \* history: the last call or lookup request served

listVars == <<paginationLimit, walkKind, walk, walkCursor, walkState,
              lastList, lastCall>>

VARIABLES
    initialized,           \* mcpClient.initialized
    capabilities,          \* mcpClient.capabilities
    clientCalls,           \* history: number of calls of client methods
    clientResult           \* history: what the last client call returned

clientVars == <<initialized, capabilities, clientCalls, clientResult>>

VARIABLES
    transport,             \* the transport implementation Start and Close
                           \* are called on
    tclosed,               \* its closed field (httpServerTransport has none)
    launched,              \* history: the goroutines and child processes
                           \* its Start calls launched
    closeHandlerCalls,     \* history: number of calls of its closeHandler
    startCalls,            \* history: number of calls of Start
    startsOK,              \* history: number of them that returned nil
    closeCalls,            \* history: number of calls of Close
    lastLife               \* history: the last Start or Close and the
                           \* state it found

lifeVars == <<transport, tclosed, launched, closeHandlerCalls, startCalls,
              startsOK, closeCalls, lastLife>>

VARIABLES
    sessions,              \* sseServerTransport.sessions: id -> session
    spc,                   \* per event stream: position in handleSSE
    sctxDone,              \* per session: session.ctx is done
    messageChan,           \* per session: the buffer of messageChan
    requestChan,           \* per session: the buffer of requestChan
    chanClosed,            \* per session: both channels are closed
    proc,                  \* per session: its processSessionMessages
    written,               \* history: the events written to each stream
    enqueued,              \* history: what Send put on each messageChan
    accepted,              \* history: what POSTs put on each requestChan
    delivered,             \* history: what each messageHandler was given
    post,                  \* the POST in handleMessage, after its lookup
    posts,                 \* history: number of POSTs
    lastPost,              \* history: the last POST and its answer
    sends,                 \* history: number of Send calls of the
                           \* application
    lastSend               \* history: the last Send and the state it found

sseVars == <<sessions, spc, sctxDone, messageChan, requestChan, chanClosed,
             proc, written, enqueued, accepted, delivered, post, posts,
             lastPost, sends, lastSend>>

VARIABLES
    middleware,            \* sseServerTransport.middleware
    serverHandler,         \* http.Server.Handler as Start built it: the
                           \* wrappers from the outside in, the mux last
    served                 \* history: what ran for the last HTTP request

chainVars == <<middleware, serverHandler, served>>

VARIABLES
    wmu,                   \* the goroutine that holds the pipe transport's mu
    writer,                \* its bufio.Writer: the buffer and the sticky
                           \* error
    pipeOut,               \* what was written to the pipe itself
    sender,                \* per goroutine in Send: position, call, result
    sendCalls              \* history: the Send calls in the order they
                           \* took mu, and what each returned

pipeVars == <<wmu, writer, pipeOut, sender, sendCalls>>

VARIABLES
    pendingExchanges,      \* httpServerTransport.pendingRequests: id ->
                           \* the exchange whose channel is stored
    messageHandlerSet,     \* httpServerTransport.messageHandler is not nil
    exchange,              \* per HTTP exchange: position in ServeHTTP, its
                           \* request, context, channel and answer
    hsend                  \* per call of httpServerTransport.Send:
                           \* position, envelope, channel in hand, result

exchangeVars == <<pendingExchanges, messageHandlerSet, exchange, hsend>>

wireVars == <<chainVars, pipeVars, exchangeVars>>

\* The state of the transports' own lifecycle, sessions and exchanges.
netVars == <<lifeVars, sseVars, wireVars>>

\* The state of the layers above the engine.
mcpVars == <<serverVars, lockVars, listVars, clientVars, netVars>>

\* The state of the engine and its transport.
engineVars == <<transportKind, closed, requestID, pendingRequests,
                responseChan, pc, callID, ctxErr, ret, cancelledOutstanding,
                closedOutstanding, tpc, tmsg, tchan, requestHandlers,
                notificationHandlers, sent, handlerCalls, dispatched,
                notifications, panicked>>

vars == <<engineVars, mcpVars>>

callVars == <<pc, callID, ctxErr, ret, cancelledOutstanding,
              closedOutstanding>>
taskVars == <<tpc, tmsg, tchan>>
handlerVars == <<requestHandlers, notificationHandlers>>

NoMessage == BaseJSONRPCMessage(NilID, "", NilRaw, NilRaw, NilErr)
NoReturn == [result |-> NilRaw, err |-> NilErr]
NoCaller == "none"

\* ----------------------------------------------------------- helpers ----
Wrap(prefix, err) == <<prefix>> \o err

\* ctx.Done() is ready exactly when ctx.Err() is non-nil.
CtxDone(c) == ctxErr[c] # NilErr

\* ------------------------------------------------------- transports ----
\* The outcome of transport.Send(ctx, msg): the error it returns and
\* whether the envelope was handed to the peer.  `fail` is the
\* transport-specific failure of this call (a write error, a full or
\* missing session, an HTTP error, no pending exchange for the id).
stdioSend(isClosed, fail) ==
    IF isClosed THEN [err |-> ErrTransportClosed, handed |-> FALSE]
    ELSE IF fail THEN [err |-> ErrTransportIO, handed |-> FALSE]
    ELSE [err |-> NilErr, handed |-> TRUE]

\* A response is sent with the handling context (a session id): targeted.
\* Anything else has no session id: broadcast, best effort, returns nil.
sseSend(isClosed, msg, fail) ==
    IF isClosed THEN [err |-> ErrTransportClosed, handed |-> FALSE]
    ELSE IF msg.method = ""
         THEN IF fail THEN [err |-> ErrTransportIO, handed |-> FALSE]
              ELSE [err |-> NilErr, handed |-> TRUE]
         ELSE [err |-> NilErr, handed |-> ~fail]

httpClientSend(isClosed, fail) ==
    IF isClosed THEN [err |-> ErrTransportClosed, handed |-> FALSE]
    ELSE IF fail THEN [err |-> ErrTransportIO, handed |-> FALSE]
    ELSE [err |-> NilErr, handed |-> TRUE]

\* The HTTP server has no closed flag: Send looks the id up among the
\* pending exchanges and returns nil when there is none.  Only the
\* response to a POST that is still waiting finds one, and none is waiting
\* once Close (server.Shutdown) has returned.  With one found, the send
\* fails when the exchange's context is done or nobody takes it in time.
httpServerSend(isClosed, msg, fail) ==
    IF msg.method # "" \/ msg.id = NilID \/ isClosed
    THEN [err |-> NilErr, handed |-> FALSE]
    ELSE IF fail THEN [err |-> ErrTransportIO, handed |-> FALSE]
    ELSE [err |-> NilErr, handed |-> TRUE]

TransportSend(kind, isClosed, msg, fail) ==
    CASE kind = "stdio" -> stdioSend(isClosed, fail)
      [] kind = "sse" -> sseSend(isClosed, msg, fail)
      [] kind = "httpClient" -> httpClientSend(isClosed, fail)
      [] kind = "httpServer" -> httpServerSend(isClosed, msg, fail)

SendRecord(msg, out) == [msg |-> msg, err |-> out.err, handed |-> out.handed]

\* ---------------------------------------------- MCP server: values ----
MaxOps == 3
MaxKey == 2

\* The three registries of MCPServer.
Kinds == {"tools", "prompts", "resources"}

\* Registry keys (tool names, prompt names, resource URIs), numbered in
\* the order Go's < gives the strings; key 0 is the empty string.
Keys == 0..MaxKey
EmptyKey == 0

Descriptions == {"d1", "d2"}

\* --- Go types, as reflect shows them to the schema generator ---
MaxFields == 2

ScalarType(kind) == [kind |-> kind]
PtrType(elem) == [kind |-> "ptr", elem |-> elem]
StructType(fields) == [kind |-> "struct", fields |-> fields]
FuncType(in) == [kind |-> "func", in |-> in]

\* An interface type is its method set, each method with its signature.
InterfaceType(methods) == [kind |-> "interface", methods |-> methods]

\* context.Context
ContextType ==
    InterfaceType({"Deadline() (time.Time, bool)", "Done() <-chan struct{}",
                   "Err() error", "Value(any) any"})

\* interface{ Deadline() }: the interface GenerateSchema tests the first
\* parameter against.
DeadlineInterface == InterfaceType({"Deadline()"})

\* reflect.Type.Implements: the method set of the type holds every method
\* of the interface, with the same signature.
Implements(type, interface) ==
    type.kind = "interface" /\ interface.methods \subseteq type.methods

\* The parts of a jsonschema tag, split at the commas: the word required,
\* or description= and a text.
TagRequired == [key |-> "required", value |-> ""]
TagDescription(text) == [key |-> "description", value |-> text]

\* The description texts that hold the letters "required".
TextsWithRequired == {"not required"}

\* A struct field: its Go name, whether it is exported, the parts of its
\* json tag (none: no tag), the parts of its jsonschema tag, its type.
StructField(name, exported, jsonTag, jsonSchemaTag, type) ==
    [name |-> name, exported |-> exported, jsonTag |-> jsonTag,
     jsonSchemaTag |-> jsonSchemaTag, type |-> type]

\* The fields argument structs are made of; no two share a JSON name.
FieldPool ==
    {StructField("City", TRUE, <<"city">>, <<TagDescription("d1")>>,
                 ScalarType("string")),
     StructField("Count", TRUE, << >>, <<TagRequired>>,
                 PtrType(ScalarType("int"))),
     StructField("Unit", TRUE, <<"", "omitempty">>, << >>,
                 PtrType(ScalarType("string"))),
     StructField("Note", TRUE, <<"note">>,
                 <<TagDescription("not required")>>,
                 PtrType(ScalarType("string"))),
     StructField("Secret", TRUE, <<"-">>, << >>, ScalarType("bool")),
     StructField("cache", FALSE, << >>, << >>, ScalarType("float64"))}

RECURSIVE FieldLists(_)
\* The field lists of n fields of the pool, no field twice.
FieldLists(n) ==
    IF n = 0 THEN {<< >>}
    ELSE {Append(p[1], p[2]) :
            p \in {q \in FieldLists(n - 1) \X FieldPool :
                     \A i \in 1..Len(q[1]) : q[1][i] # q[2]}}

\* Two argument structs.
S1 == StructType(<<StructField("City", TRUE, <<"city">>,
                               <<TagDescription("d1")>>,
                               ScalarType("string"))>>)
S2 == StructType(<<StructField("Count", TRUE, << >>, <<TagRequired>>,
                               PtrType(ScalarType("int")))>>)

\* What is passed as a handler: a value that is no function, a function
\* whose argument is no struct, and two functions with struct arguments.
NotFunc == ScalarType("string")
BadArg == FuncType(<<ScalarType("string")>>)
F1 == FuncType(<<S1>>)
F2 == FuncType(<<S2>>)
Handlers == {NotFunc, BadArg, F1, F2}

\* An entry of a registry.  Prompts and resources carry no schema.
RegistryEntry(description, handler, schema) ==
    [description |-> description, handler |-> handler, schema |-> schema]

NoOp == [kind |-> "none", sawStarted |-> FALSE]
NoWrite == [op |-> "none", kind |-> "none", key |-> EmptyKey, entry |-> NilRaw]
NoRead == [handler |-> "none", kind |-> "none", raced |-> FALSE]
NoResult == [call |-> "none", err |-> NilErr]

\* NewServer, the registries aside.
InitServerState ==
    /\ started = FALSE
    /\ listening = FALSE
    /\ wpc = "idle"
    /\ wop = NoOp
    /\ ops = 0
    /\ lastResult = NoResult
    /\ muWriter = FALSE
    /\ muReaders = {}
    /\ wcrit = NoWrite
    /\ rpc = [t \in Tasks |-> "idle"]
    /\ rop = [t \in Tasks |-> NoRead]

InitServer ==
    /\ InitServerState
    /\ registries = [kind \in Kinds |-> << >>]
    /\ latest = [kind \in Kinds |-> << >>]

\* NewServer's default pagination limit.
DefaultPaginationLimit == 10

\* A cursor is a *string: nil, or a text.  A text is the sequence of its
\* symbols; base64 maps the empty string to the empty text and any other
\* key to a text of its own.
NoCursor == [present |-> FALSE, text |-> << >>]
NoList == [called |-> FALSE, cursor |-> NoCursor, keys |-> << >>]

\* What a server handler returns as its result: nothing, a ToolResponse, a
\* PromptResponse or a ResourceResponse.
NilValue == [type |-> "nil", isError |-> FALSE, content |-> << >>]
NoCall == [called |-> FALSE, method |-> "", params |-> "notMap",
           known |-> FALSE, hret |-> "ok",
           returned |-> [result |-> NilValue, err |-> NilErr],
           response |-> BaseJSONRPCMessage(NilID, "", NilRaw, NilRaw, NilErr)]

\* No peer is listing.
InitWalk ==
    /\ walkKind = "tools"
    /\ walk = << >>
    /\ walkCursor = NoCursor
    /\ walkState = "fresh"
    /\ lastList = NoList
    /\ lastCall = NoCall

\* NewClient
InitClient ==
    /\ initialized = FALSE
    /\ capabilities = NilRaw
    /\ clientCalls = 0
    /\ clientResult = NoResult

\* The transport implementations, and the kind each one is of.
Transports == {"stdioServer", "stdioClient", "sseServer", "sseClient",
               "httpServer", "httpClient"}

KindOf(t) ==
    CASE t \in {"stdioServer", "stdioClient"} -> "stdio"
      [] t \in {"sseServer", "sseClient"} -> "sse"
      [] OTHER -> t

\* The implementation a server of the kind connects to.
DefaultTransport(kind) ==
    CASE kind = "stdio" -> "stdioServer"
      [] kind = "sse" -> "sseServer"
      [] OTHER -> kind

\* What the Start calls of a transport have launched: goroutines that
\* read, goroutines that run ListenAndServe, child processes.
NoLaunch == [readLoops |-> 0, serveLoops |-> 0, children |-> 0]
NoLife == [call |-> "none", err |-> NilErr, closedBefore |-> FALSE,
           launchedBefore |-> NoLaunch, handlerCallsBefore |-> 0,
           startsOKBefore |-> 0, closeCallsBefore |-> 0]

\* NewServerTransport, NewClientTransport
InitLifecycle(t) ==
    /\ transport = t
    /\ tclosed = FALSE
    /\ launched = NoLaunch
    /\ closeHandlerCalls = 0
    /\ startCalls = 0
    /\ startsOK = 0
    /\ closeCalls = 0
    /\ lastLife = NoLife

\* The event streams (GET requests) the push-stream server is asked for.
Streams == {1, 2}

\* generateSessionID reads 16 random bytes and hex-encodes them.
SessionIDBytes == 16
\* make(chan []byte, 10), make(chan *BaseJSONRPCMessage, 10)
SessionBufferSize == 10

HexChars == <<"0", "1", "2", "3", "4", "5", "6", "7", "8", "9", "a", "b",
              "c", "d", "e", "f">>

\* hex.EncodeToString: two characters for each byte, high half first.
HexEncode(bytes) ==
    [i \in 1..(2 * Len(bytes)) |->
       IF i % 2 = 1
       THEN HexChars[(bytes[(i + 1) \div 2] \div 16) + 1]
       ELSE HexChars[(bytes[i \div 2] % 16) + 1]]

\* rand.Read(bytes): the n-th draw.  Two draws differ (they collide with
\* probability 2^-128).
RandRead(n) == [i \in 1..SessionIDBytes |-> (16 * n + 17 * i) % 256]

generateSessionID(n) == HexEncode(RandRead(n))

\* The empty string, as a session id.
EmptySessionID == << >>

MessageURL(id) == [path |-> "/sse/message", session_id |-> id]
NoURL == [path |-> "", session_id |-> EmptySessionID]

\* An event on a stream.  With the endpoint event goes what held when it
\* was written: inTable, the id was in the session table; closed, the
\* transport was closed.
EndpointEvent(id, inTable, isClosed) ==
    [event |-> "endpoint", url |-> MessageURL(id),
     msg |-> BaseJSONRPCMessage(NilID, "", NilRaw, NilRaw, NilErr),
     inTable |-> inTable, closed |-> isClosed]
MessageEvent(data) ==
    [event |-> "message", url |-> NoURL, msg |-> data,
     inTable |-> FALSE, closed |-> FALSE]

\* The context Send is called with: whether it has a "session_id" string
\* value, and the value.
NoSessionCtx == [ok |-> FALSE, id |-> EmptySessionID]
SessionCtx(id) == [ok |-> TRUE, id |-> id]

\* An envelope on a requestChan: the pointer to the envelope decoded from
\* the body of the n-th POST.
Posted(n, msg) == [post |-> n, msg |-> msg]

NoPost == [pc |-> "idle", stream |-> 0,
           item |-> Posted(0, BaseJSONRPCMessage(NilID, "", NilRaw, NilRaw,
                                                 NilErr))]
\* named: where the stream of the named session was in handleSSE at the
\* lookup ("never": the id is none that handleSSE generated); ctxDone,
\* chanClosed: what the select found.
NoLastPost == [sid |-> EmptySessionID, status |-> 0, found |-> FALSE,
               stream |-> 0, named |-> "never", bodyOK |-> FALSE,
               ctxDone |-> FALSE, chanClosed |-> FALSE,
               item |-> Posted(0, BaseJSONRPCMessage(NilID, "", NilRaw,
                                                     NilRaw, NilErr))]
\* openBefore: the streams whose endpoint event was written; enqueuedTo:
\* the streams whose messageChan got the envelope.
NoLastSend == [called |-> FALSE, ctx |-> NoSessionCtx,
               msg |-> BaseJSONRPCMessage(NilID, "", NilRaw, NilRaw, NilErr),
               err |-> NilErr, closedBefore |-> FALSE,
               tableBefore |-> << >>,
               chansBefore |-> [s \in Streams |-> << >>],
               openBefore |-> {}, enqueuedTo |-> {}]

\* NewServerTransport of the push-stream transport: no session.
InitSessions ==
    /\ sessions = << >>
    /\ spc = [s \in Streams |-> "idle"]
    /\ sctxDone = [s \in Streams |-> FALSE]
    /\ messageChan = [s \in Streams |-> << >>]
    /\ requestChan = [s \in Streams |-> << >>]
    /\ chanClosed = [s \in Streams |-> FALSE]
    /\ proc = [s \in Streams |-> "none"]
    /\ written = [s \in Streams |-> << >>]
    /\ enqueued = [s \in Streams |-> << >>]
    /\ accepted = [s \in Streams |-> << >>]
    /\ delivered = [s \in Streams |-> << >>]
    /\ post = NoPost
    /\ posts = 0
    /\ lastPost = NoLastPost
    /\ sends = 0
    /\ lastSend = NoLastSend

\* NewServerTransport of the HTTP transports: no middleware, and no
\* handler on the http.Server before Start.
NoHandler == << >>
NoServed == [entered |-> << >>, left |-> << >>]

\* The goroutines that call Send of one pipe transport.
Senders == {"s1", "s2"}
NoHolder == "none"
NoSender == [pc |-> "idle", call |-> 0]

\* NewServerTransport, NewClientTransport of the pipe transport:
\* bufio.NewWriter on the pipe.
InitPipeWriter ==
    /\ wmu = NoHolder
    /\ writer = [buf |-> << >>, err |-> NilErr]
    /\ pipeOut = << >>
    /\ sender = [k \in Senders |-> NoSender]
    /\ sendCalls = << >>

\* The HTTP exchanges of a request/reply server and the calls of its
\* Send.
Exchanges == {1, 2}
SendTasks == {1, 2}

NoExchange ==
    [pc |-> "idle", id |-> NilID, buf |-> << >>, chanClosed |-> FALSE,
     ctxDone |-> FALSE, status |-> 0, body |-> NoMessage,
     outcome |-> "none", registered |-> FALSE, handlerStarted |-> FALSE,
     overlapped |-> FALSE, written |-> 0]

NoHTTPSend ==
    [pc |-> "idle", msg |-> NoMessage, found |-> FALSE, target |-> 0,
     err |-> NilErr]

\* NewServerTransport of the request/reply HTTP transport: an empty
\* pending table and no handler.
InitExchanges ==
    /\ pendingExchanges = << >>
    /\ messageHandlerSet = FALSE
    /\ exchange = [e \in Exchanges |-> NoExchange]
    /\ hsend = [k \in SendTasks |-> NoHTTPSend]

InitHTTP ==
    /\ middleware = << >>
    /\ serverHandler = NoHandler
    /\ served = NoServed
    /\ InitPipeWriter
    /\ InitExchanges

\* ----------------------------------------------------------- Init ----
\* NewProtocol, the handler tables aside, connected to a transport.
InitEngineState ==
    /\ transportKind \in TransportKinds
    /\ closed = FALSE
    /\ requestID = 0
    /\ pendingRequests = << >>
    /\ responseChan = [c \in Callers |-> [buf |-> << >>, closed |-> FALSE]]
    /\ pc = [c \in Callers |-> "idle"]
    /\ callID = [c \in Callers |-> NilID]
    /\ ctxErr = [c \in Callers |-> NilErr]
    /\ ret = [c \in Callers |-> NoReturn]
    /\ cancelledOutstanding = [c \in Callers |-> FALSE]
    /\ closedOutstanding = [c \in Callers |-> FALSE]
    /\ tpc = [t \in Tasks |-> "idle"]
    /\ tmsg = [t \in Tasks |-> NoMessage]
    /\ tchan = [t \in Tasks |-> NoCaller]
    /\ sent = << >>
    /\ handlerCalls = [request |-> 0, notification |-> 0]
    /\ dispatched = 0
    /\ notifications = << >>
    /\ panicked = FALSE

Init ==
    /\ InitEngineState
    /\ requestHandlers = {}
    /\ notificationHandlers = {}
    /\ InitServer
    /\ paginationLimit = DefaultPaginationLimit
    /\ InitWalk
    /\ InitClient
    /\ InitLifecycle(DefaultTransport(transportKind))
    /\ InitSessions
    /\ InitHTTP

\* ---------------------------------------------------------- Request ----
OutboundMethods == {"ma"}

\* Mutant: the counter is read but the increment is lost after the first.
NextRequestIDStuck(n) == IF n = 0 THEN 1 ELSE n

\* id := p.requestID.Add(1)
NextRequestID(n) == n + 1

ErrMarshalParams == <<"failed to marshal params", "json: unsupported type">>

RequestMessage(id) == BaseJSONRPCMessage(id, "ma", "{}", NilRaw, NilErr)

\* Mutant: the error object is returned as it came, not formatted.
ResponseReturnRaw(responseMsg) ==
    IF responseMsg.error # NilErr
    THEN [result |-> NilRaw, err |-> responseMsg.error]
    ELSE [result |-> responseMsg.result, err |-> NilErr]

\* What Request returns for the response it took from its channel.
ResponseReturn(responseMsg) ==
    IF responseMsg.error # NilErr
    THEN [result |-> NilRaw,
          err |-> <<"RPC error", responseMsg.error[1], responseMsg.error[2]>>]
    ELSE [result |-> responseMsg.result, err |-> NilErr]

\* Mutant: the context's error is wrapped before it is returned.
CtxReturnWrapped(err) ==
    [result |-> NilRaw, err |-> Wrap("request cancelled", err)]

\* What Request returns when ctx.Done() is taken: ctx.Err() itself.
CtxReturn(err) == [result |-> NilRaw, err |-> err]

\* What Request returns when transport.Send fails.
SendErrorReturn(err) ==
    [result |-> NilRaw, err |-> Wrap("failed to send request", err)]

DeleteKey(f, k) == [i \in DOMAIN f \ {k} |-> f[i]]

\* Mutant: the slot is not stored before the envelope is sent.
RegisterPendingLate(table, id, c) == table

\* p.pendingRequests[id] = responseChan
RegisterPending(table, id, c) == (id :> c) @@ table

\* Request up to the registration of the pending slot: allocate the id,
\* marshal the params, create the channel and store it under the id.
RequestBegin(c, paramsOK) ==
    /\ ~panicked
    /\ pc[c] = "idle"
    /\ requestID < MaxID
    /\ LET id == NextRequestID(requestID) IN
       /\ requestID' = id
       /\ callID' = [callID EXCEPT ![c] = id]
       /\ IF paramsOK
          THEN /\ pendingRequests' = RegisterPending(pendingRequests, id, c)
               /\ pc' = [pc EXCEPT ![c] = "send"]
               /\ ret' = ret
          ELSE /\ pendingRequests' = pendingRequests
               /\ pc' = [pc EXCEPT ![c] = "done"]
               /\ ret' = [ret EXCEPT ![c] =
                            [result |-> NilRaw, err |-> ErrMarshalParams]]
    /\ UNCHANGED <<transportKind, closed, responseChan, ctxErr,
                   cancelledOutstanding, closedOutstanding, taskVars,
                   handlerVars, sent, handlerCalls, dispatched, notifications,
                   panicked>>
    /\ UNCHANGED mcpVars

\* p.transport.Send(ctx, msg) and the early return on its error.
RequestSend(c, fail) ==
    /\ ~panicked
    /\ pc[c] = "send"
    /\ LET msg == RequestMessage(callID[c])
           out == TransportSend(transportKind, closed, msg, fail) IN
       /\ sent' = Append(sent, SendRecord(msg, out))
       /\ IF out.err # NilErr
          THEN /\ ret' = [ret EXCEPT ![c] = SendErrorReturn(out.err)]
               /\ pc' = [pc EXCEPT ![c] = "cleanup"]
          ELSE /\ ret' = ret
               /\ pc' = [pc EXCEPT ![c] = "wait"]
    /\ UNCHANGED <<transportKind, closed, requestID, pendingRequests,
                   responseChan, callID, ctxErr, cancelledOutstanding,
                   closedOutstanding, taskVars, handlerVars, handlerCalls,
                   dispatched, notifications, panicked>>
    /\ UNCHANGED mcpVars

\* select: case response := <-responseChan
RequestReceive(c) ==
    /\ ~panicked
    /\ pc[c] = "wait"
    /\ responseChan[c].buf # << >>
    /\ ret' = [ret EXCEPT ![c] = ResponseReturn(Head(responseChan[c].buf))]
    /\ responseChan' = [responseChan EXCEPT ![c].buf = << >>]
    /\ pc' = [pc EXCEPT ![c] = "cleanup"]
    /\ UNCHANGED <<transportKind, closed, requestID, pendingRequests,
                   callID, ctxErr, cancelledOutstanding, closedOutstanding,
                   taskVars, handlerVars, sent, handlerCalls, dispatched,
                   notifications, panicked>>
    /\ UNCHANGED mcpVars

\* select: case <-ctx.Done()
RequestCtxDone(c) ==
    /\ ~panicked
    /\ pc[c] = "wait"
    /\ CtxDone(c)
    /\ ret' = [ret EXCEPT ![c] = CtxReturn(ctxErr[c])]
    /\ pc' = [pc EXCEPT ![c] = "cleanup"]
    /\ UNCHANGED <<transportKind, closed, requestID, pendingRequests,
                   responseChan, callID, ctxErr, cancelledOutstanding,
                   closedOutstanding, taskVars, handlerVars, sent,
                   handlerCalls, dispatched, notifications, panicked>>
    /\ UNCHANGED mcpVars

\* Mutant: the deferred cleanup forgets to delete the slot.
RequestDeleteSlotKeep(c) ==
    /\ ~panicked
    /\ pc[c] = "cleanup"
    /\ pc' = [pc EXCEPT ![c] = "close"]
    /\ UNCHANGED <<transportKind, closed, requestID, pendingRequests,
                   responseChan, callID, ctxErr, ret, cancelledOutstanding,
                   closedOutstanding, taskVars, handlerVars, sent,
                   handlerCalls, dispatched, notifications, panicked>>
    /\ UNCHANGED mcpVars

\* deferred cleanup, first half: delete(p.pendingRequests, id) under the lock
RequestDeleteSlot(c) ==
    /\ ~panicked
    /\ pc[c] = "cleanup"
    /\ pendingRequests' = DeleteKey(pendingRequests, callID[c])
    /\ pc' = [pc EXCEPT ![c] = "close"]
    /\ UNCHANGED <<transportKind, closed, requestID, responseChan, callID,
                   ctxErr, ret, cancelledOutstanding, closedOutstanding,
                   taskVars, handlerVars, sent, handlerCalls, dispatched,
                   notifications, panicked>>
    /\ UNCHANGED mcpVars

\* deferred cleanup, second half: close(responseChan); Request returns
RequestCloseChan(c) ==
    /\ ~panicked
    /\ pc[c] = "close"
    /\ responseChan' = [responseChan EXCEPT ![c].closed = TRUE]
    /\ pc' = [pc EXCEPT ![c] = "done"]
    /\ UNCHANGED <<transportKind, closed, requestID, pendingRequests, callID,
                   ctxErr, ret, cancelledOutstanding, closedOutstanding,
                   taskVars, handlerVars, sent, handlerCalls, dispatched,
                   notifications, panicked>>
    /\ UNCHANGED mcpVars

\* A call is outstanding when its request was sent and no response for it
\* has arrived: none is in its channel and none is being handed to it.
Outstanding(c) ==
    /\ pc[c] = "wait"
    /\ responseChan[c].buf = << >>
    /\ \A t \in Tasks : tchan[t] # c

\* The caller cancels the context, or its deadline passes.
CtxCancel(c, err) ==
    /\ ~panicked
    /\ c \in Cancellable
    /\ pc[c] \in {"send", "wait"}
    /\ ctxErr[c] = NilErr
    /\ ctxErr' = [ctxErr EXCEPT ![c] = err]
    /\ cancelledOutstanding' =
           [cancelledOutstanding EXCEPT ![c] = Outstanding(c)]
    /\ UNCHANGED <<transportKind, closed, requestID, pendingRequests,
                   responseChan, pc, callID, ret, closedOutstanding,
                   taskVars, handlerVars, sent, handlerCalls, dispatched,
                   notifications, panicked>>
    /\ UNCHANGED mcpVars

\* ----------------------------------------------------- Notification ----
\* Mutant: the notification is given an id, as a request would be.
NotificationMessageWithID(method) ==
    BaseJSONRPCMessage(1, method, "{}", NilRaw, NilErr)

NotificationMessage(method) ==
    BaseJSONRPCMessage(NilID, method, "{}", NilRaw, NilErr)

\* The methods Notification is called with.
NotificationMethods == OutboundMethods \cup {"notifications/tools/list_changed"}

Notification(method, paramsOK, fail) ==
    /\ Len(notifications) < MaxNotifications
    /\ IF paramsOK
       THEN LET msg == NotificationMessage(method)
                out == TransportSend(transportKind, closed, msg, fail) IN
            /\ sent' = Append(sent, SendRecord(msg, out))
            /\ notifications' = Append(notifications, out.err)
       ELSE /\ sent' = sent
            /\ notifications' = Append(notifications, ErrMarshalParams)
    /\ UNCHANGED <<transportKind, closed, requestID, pendingRequests,
                   responseChan, callVars, taskVars, handlerVars,
                   handlerCalls, dispatched, panicked>>
    /\ UNCHANGED mcpVars

\* ------------------------------------------------------------ Close ----
\* p.transport.Close().  A second Close changes nothing.
Close ==
    /\ ~closed
    /\ closed' = TRUE
    /\ closedOutstanding' = [c \in Callers |-> Outstanding(c)]
    /\ UNCHANGED <<transportKind, requestID, pendingRequests, responseChan,
                   pc, callID, ctxErr, ret, cancelledOutstanding, taskVars,
                   handlerVars, sent, handlerCalls, dispatched, notifications,
                   panicked>>
    /\ UNCHANGED mcpVars

\* ---------------------------------------------------- handleMessage ----
\* Mutant: the method is looked at before the result and the error.
RouteMethodFirst(msg) ==
    IF msg.method # "" /\ msg.id # NilID THEN "request"
    ELSE IF msg.method # "" THEN "notification"
    ELSE IF msg.result # NilRaw \/ msg.error # NilErr THEN "response"
    ELSE "ignored"

\* Mutant: the test for a request is made before the test for a response.
RouteRequestFirst(msg) ==
    IF msg.method # "" /\ msg.id # NilID THEN "request"
    ELSE IF msg.result # NilRaw \/ msg.error # NilErr THEN "response"
    ELSE IF msg.method # "" THEN "notification"
    ELSE "ignored"

\* The path handleMessage takes for an envelope, decided in this order.
Route(msg) ==
    IF msg.result # NilRaw \/ msg.error # NilErr THEN "response"
    ELSE IF msg.method # "" /\ msg.id # NilID THEN "request"
    ELSE IF msg.method # "" THEN "notification"
    ELSE "ignored"

\* json.Unmarshal(msg.Params, &params) succeeds on the raw JSON that the
\* transports' decoders accept.
ParamsParse(params) == params \in {NilRaw, "{}"}

ErrorResponse(id, code, message) ==
    BaseJSONRPCMessage(id, "", NilRaw, NilRaw, <<code, message>>)

ResultResponse(id, result) ==
    BaseJSONRPCMessage(id, "", NilRaw, result, NilErr)

\* handleRequest calls the handler when one is registered and the params
\* parse.
RequestHandlerInvoked(msg, handlers) ==
    msg.method \in handlers /\ ParamsParse(msg.params)

\* Mutant: the codes of the two error paths are exchanged.
RequestResponseSwapped(msg, handlers, hret) ==
    IF msg.method \notin handlers
    THEN ErrorResponse(msg.id, -32603, "Internal error")
    ELSE IF ~ParamsParse(msg.params)
    THEN ErrorResponse(msg.id, -32602, "Invalid params")
    ELSE IF hret = "err"
    THEN ErrorResponse(msg.id, -32601, "Method not found")
    ELSE IF hret = "unserialisable"
    THEN ErrorResponse(msg.id, -32603, "Failed to serialize result")
    ELSE ResultResponse(msg.id, "h1")

\* The response handleRequest builds; hret is what the handler returns.
RequestResponse(msg, handlers, hret) ==
    IF msg.method \notin handlers
    THEN ErrorResponse(msg.id, -32601, "Method not found")
    ELSE IF ~ParamsParse(msg.params)
    THEN ErrorResponse(msg.id, -32602, "Invalid params")
    ELSE IF hret = "err"
    THEN ErrorResponse(msg.id, -32603, "Internal error")
    ELSE IF hret = "unserialisable"
    THEN ErrorResponse(msg.id, -32603, "Failed to serialize result")
    ELSE ResultResponse(msg.id, "h1")

\* handleNotification calls the handler when one is registered and the
\* params parse.
NotificationHandlerInvoked(msg, handlers) ==
    msg.method \in handlers /\ ParamsParse(msg.params)

Deliverable(t) == tpc[t] = "idle" /\ ~closed /\ ~panicked

\* handleResponse up to the release of the read lock: the channel stored
\* under the id is taken in hand, or the response is logged and dropped.
handleResponse(t, msg) ==
    /\ IF msg.id \in DOMAIN pendingRequests
       THEN /\ tpc' = [tpc EXCEPT ![t] = "deliver"]
            /\ tmsg' = [tmsg EXCEPT ![t] = msg]
            /\ tchan' = [tchan EXCEPT ![t] = pendingRequests[msg.id]]
       ELSE UNCHANGED taskVars
    /\ UNCHANGED <<sent, handlerCalls, dispatched>>

\* Mutant: a request for an unknown method is dropped without a reply.
handleRequestSilent(t, msg, hret, fail) ==
    /\ dispatched < MaxInbound
    /\ dispatched' = dispatched + 1
    /\ LET response == RequestResponse(msg, requestHandlers, hret)
           out == TransportSend(transportKind, closed, response, fail) IN
       sent' = IF msg.method \in requestHandlers
               THEN Append(sent, SendRecord(response, out))
               ELSE sent
    /\ handlerCalls' =
         IF RequestHandlerInvoked(msg, requestHandlers)
         THEN [handlerCalls EXCEPT !.request = @ + 1]
         ELSE handlerCalls
    /\ UNCHANGED taskVars

\* handleRequest: look the handler up, call it, build the response and
\* pass it to transport.Send; a Send error is only logged.
handleRequest(t, msg, hret, fail) ==
    /\ dispatched < MaxInbound
    /\ dispatched' = dispatched + 1
    /\ LET response == RequestResponse(msg, requestHandlers, hret)
           out == TransportSend(transportKind, closed, response, fail) IN
       sent' = Append(sent, SendRecord(response, out))
    /\ handlerCalls' =
         IF RequestHandlerInvoked(msg, requestHandlers)
         THEN [handlerCalls EXCEPT !.request = @ + 1]
         ELSE handlerCalls
    /\ UNCHANGED taskVars

\* Mutant: a failing notification handler is reported to the peer.
handleNotificationReplies(t, msg, hret) ==
    /\ dispatched < MaxInbound
    /\ dispatched' = dispatched + 1
    /\ handlerCalls' =
         IF NotificationHandlerInvoked(msg, notificationHandlers)
         THEN [handlerCalls EXCEPT !.notification = @ + 1]
         ELSE handlerCalls
    /\ LET response == ErrorResponse(msg.id, -32603, "Internal error")
           out == TransportSend(transportKind, closed, response, FALSE) IN
       sent' = IF NotificationHandlerInvoked(msg, notificationHandlers)
                  /\ hret = "err"
               THEN Append(sent, SendRecord(response, out))
               ELSE sent
    /\ UNCHANGED taskVars

\* handleNotification: look the handler up and call it; what it returns
\* (hret) is discarded and nothing is sent.
handleNotification(t, msg, hret) ==
    /\ dispatched < MaxInbound
    /\ dispatched' = dispatched + 1
    /\ handlerCalls' =
         IF NotificationHandlerInvoked(msg, notificationHandlers)
         THEN [handlerCalls EXCEPT !.notification = @ + 1]
         ELSE handlerCalls
    /\ UNCHANGED <<taskVars, sent>>

\* The transport's delivery task hands one inbound envelope to the engine.
handleMessage(t, msg, hret, fail) ==
    /\ Deliverable(t)
    /\ CASE Route(msg) = "response" -> handleResponse(t, msg)
         [] Route(msg) = "request" -> handleRequest(t, msg, hret, fail)
         [] Route(msg) = "notification" -> handleNotification(t, msg, hret)
         [] OTHER -> UNCHANGED <<taskVars, sent, handlerCalls, dispatched>>
    /\ UNCHANGED <<transportKind, closed, requestID, pendingRequests,
                   responseChan, callVars, handlerVars, notifications,
                   panicked>>
    /\ UNCHANGED mcpVars

\* handleResponse after the lock: select { case responseChan <- msg:
\* default: }.  A send on a closed channel panics, default case or not.
HandleResponseSend(t) ==
    /\ ~panicked
    /\ tpc[t] = "deliver"
    /\ LET c == tchan[t] IN
       IF responseChan[c].closed
       THEN /\ panicked' = TRUE
            /\ responseChan' = responseChan
       ELSE /\ panicked' = panicked
            /\ responseChan' =
                 IF responseChan[c].buf = << >>
                 THEN [responseChan EXCEPT ![c].buf = <<tmsg[t]>>]
                 ELSE responseChan
    /\ tpc' = [tpc EXCEPT ![t] = "idle"]
    /\ tmsg' = [tmsg EXCEPT ![t] = NoMessage]
    /\ tchan' = [tchan EXCEPT ![t] = NoCaller]
    /\ UNCHANGED <<transportKind, closed, requestID, pendingRequests,
                   callVars, handlerVars, sent, handlerCalls, dispatched,
                   notifications>>
    /\ UNCHANGED mcpVars

\* --------------------------------------------------------- handlers ----
RegisteredMethods == {"ma"}

SetRequestHandler(method) ==
    /\ method \notin requestHandlers
    /\ requestHandlers' = requestHandlers \cup {method}
    /\ UNCHANGED <<transportKind, closed, requestID, pendingRequests,
                   responseChan, callVars, taskVars, notificationHandlers,
                   sent, handlerCalls, dispatched, notifications, panicked>>
    /\ UNCHANGED mcpVars

SetNotificationHandler(method) ==
    /\ method \notin notificationHandlers
    /\ notificationHandlers' = notificationHandlers \cup {method}
    /\ UNCHANGED <<transportKind, closed, requestID, pendingRequests,
                   responseChan, callVars, taskVars, requestHandlers,
                   sent, handlerCalls, dispatched, notifications, panicked>>
    /\ UNCHANGED mcpVars

\* ------------------------------------------------------------- Next ----
\* What a peer answers with: envelopes that carry a result, an error or
\* both, and one that carries a method and an id as well.
ResponseEnvelopes ==
    { msg \in InboundEnvelopes :
        /\ msg.result # NilRaw \/ msg.error # NilErr
        /\ msg.params = NilRaw
        /\ msg.method = "" \/ (msg.method = "ma" /\ msg.error = NilErr) }

\* The engine over the pipe transport, issuing requests to a peer that
\* answers.
InitPipe == Init /\ transportKind = "stdio"

Next ==
    \/ \E c \in Callers, paramsOK \in BOOLEAN : RequestBegin(c, paramsOK)
    \/ \E c \in Callers, fail \in BOOLEAN : RequestSend(c, fail)
    \/ \E c \in Callers : RequestReceive(c)
    \/ \E c \in Callers : RequestCtxDone(c)
    \/ \E c \in Callers : RequestDeleteSlot(c)
    \/ \E c \in Callers : RequestCloseChan(c)
    \/ \E c \in Callers, err \in {ErrCanceled, ErrDeadlineExceeded} :
          CtxCancel(c, err)
    \/ \E t \in Tasks, msg \in ResponseEnvelopes,
          hret \in HandlerReturns, fail \in BOOLEAN :
          handleMessage(t, msg, hret, fail)
    \/ \E t \in Tasks : HandleResponseSend(t)

Spec == InitPipe /\ [][Next]_vars

\* The engine over each transport, sending before and after Close to a
\* peer that never answers.
NextClose ==
    \/ \E c \in Callers, paramsOK \in BOOLEAN : RequestBegin(c, paramsOK)
    \/ \E c \in Callers, fail \in BOOLEAN : RequestSend(c, fail)
    \/ \E c \in Callers : RequestCtxDone(c)
    \/ \E c \in Callers : RequestDeleteSlot(c)
    \/ \E c \in Callers : RequestCloseChan(c)
    \/ \E c \in Callers, err \in {ErrCanceled, ErrDeadlineExceeded} :
          CtxCancel(c, err)
    \/ \E m \in NotificationMethods, paramsOK \in BOOLEAN, fail \in BOOLEAN :
          Notification(m, paramsOK, fail)
    \/ Close

SpecClose == Init /\ [][NextClose]_vars

\* The engine over the pipe transport, serving a peer's requests and
\* notifications.
DispatchEnvelopes ==
    { msg \in InboundEnvelopes :
        /\ msg.result = NilRaw /\ msg.error = NilErr
        /\ (msg.params = "{}") <=> (msg.method # "") }

NextDispatch ==
    \/ \E t \in Tasks, msg \in DispatchEnvelopes,
          hret \in HandlerReturns, fail \in BOOLEAN :
          handleMessage(t, msg, hret, fail)
    \/ \E m \in RegisteredMethods : SetRequestHandler(m)
    \/ \E m \in RegisteredMethods : SetNotificationHandler(m)
    \/ Close

SpecDispatch == InitPipe /\ [][NextDispatch]_vars

\* The engine over the pipe transport with its handlers registered,
\* with a request of its own pending while the peer sends envelopes of
\* every shape.
InitRoute ==
    /\ InitEngineState
    /\ transportKind = "stdio"
    /\ requestHandlers = RegisteredMethods
    /\ notificationHandlers = RegisteredMethods
    /\ InitServer
    /\ paginationLimit = DefaultPaginationLimit
    /\ InitWalk
    /\ InitClient
    /\ InitLifecycle(DefaultTransport(transportKind))
    /\ InitSessions
    /\ InitHTTP

\* What the peer sends: every combination of id, method, result and
\* error, with params exactly when there is a method.
RouteEnvelopes ==
    { msg \in InboundEnvelopes : (msg.params = "{}") <=> (msg.method # "") }

NextRoute ==
    \/ \E c \in Cancellable : RequestBegin(c, TRUE)
    \/ \E c \in Cancellable : RequestSend(c, FALSE)
    \/ \E t \in Tasks, msg \in RouteEnvelopes :
          handleMessage(t, msg, "ok", FALSE)
    \/ \E t \in Tasks : HandleResponseSend(t)

SpecRoute == InitRoute /\ [][NextRoute]_vars

\* ======================================================= MCP server ====
\* No schema: the nil map returned with an error.
NilSchema == [type |-> "nil", properties |-> << >>, required |-> << >>]

\* strings.Contains(jsonSchemaTag, "required")
ContainsRequired(jsonSchemaTag) ==
    \E i \in 1..Len(jsonSchemaTag) :
        \/ jsonSchemaTag[i].key = "required"
        \/ /\ jsonSchemaTag[i].key = "description"
           /\ jsonSchemaTag[i].value \in TextsWithRequired

\* extractDescription: the text of the first description= part, or "".
extractDescription(jsonSchemaTag) ==
    LET at == {i \in 1..Len(jsonSchemaTag) :
                 jsonSchemaTag[i].key = "description" /\
                 jsonSchemaTag[i].value # ""} IN
    IF at = {} THEN ""
    ELSE jsonSchemaTag[CHOOSE i \in at : \A j \in at : i <= j].value

\* generateFieldSchema: the JSON type of the field, a pointer looked
\* through.
generateFieldSchema(field) ==
    LET t == IF field.type.kind = "ptr" THEN field.type.elem
             ELSE field.type IN
    CASE t.kind = "string" -> "string"
      [] t.kind \in {"int", "int8", "int16", "int32", "int64", "uint",
                     "uint8", "uint16", "uint32", "uint64"} -> "integer"
      [] t.kind \in {"float32", "float64"} -> "number"
      [] t.kind = "bool" -> "boolean"
      [] t.kind \in {"slice", "array"} -> "array"
      [] t.kind \in {"map", "struct"} -> "object"
      [] OTHER -> "string"

\* The fields generateSchemaFromType does not skip: exported, and not
\* tagged json:"-".
Listed(field) == field.exported /\ field.jsonTag # <<"-">>

\* The name of the property: the first part of the json tag if it is not
\* empty, the Go name otherwise.
FieldName(field) ==
    IF field.jsonTag # << >> /\ field.jsonTag[1] # ""
    THEN field.jsonTag[1] ELSE field.name

\* isRequired
FieldRequired(field) ==
    ContainsRequired(field.jsonSchemaTag) \/ field.type.kind # "ptr"

RECURSIVE RequiredNames(_)
\* required: the names appended in the order of the fields.
RequiredNames(fields) ==
    IF fields = << >> THEN << >>
    ELSE (IF Listed(Head(fields)) /\ FieldRequired(Head(fields))
          THEN <<FieldName(Head(fields))>> ELSE << >>)
         \o RequiredNames(Tail(fields))

\* properties[fieldName] = fieldSchema: a later field of the same name
\* replaces an earlier one.
SchemaProperties(fields) ==
    LET listed == {i \in 1..Len(fields) : Listed(fields[i])}
        names == {FieldName(fields[i]) : i \in listed} IN
    [n \in names |->
       LET last == CHOOSE i \in listed :
                      /\ FieldName(fields[i]) = n
                      /\ \A j \in listed :
                            FieldName(fields[j]) = n => j <= i
       IN [type |-> generateFieldSchema(fields[last]),
           description |-> extractDescription(fields[last].jsonSchemaTag)]]

\* generateSchemaFromType
generateSchemaFromType(type) ==
    LET t == IF type.kind = "ptr" THEN type.elem ELSE type IN
    IF t.kind # "struct"
    THEN [schema |-> NilSchema, err |-> <<"argument must be a struct">>]
    ELSE [schema |-> [type |-> "object",
                      properties |-> SchemaProperties(t.fields),
                      required |-> RequiredNames(t.fields)],
          err |-> NilErr]

\* The parameter GenerateSchema takes for the argument: the second if the
\* first implements interface{ Deadline() }, the first otherwise; none if
\* there is no such parameter.
ArgIndex(handler) ==
    IF Len(handler.in) > 0 /\ Implements(handler.in[1], DeadlineInterface)
    THEN (IF Len(handler.in) > 1 THEN 2 ELSE 0)
    ELSE IF Len(handler.in) > 0 THEN 1
    ELSE 0

\* GenerateSchema(handler): the input schema, or why there is none.
GenerateSchema(handler) ==
    IF handler.kind # "func"
    THEN [schema |-> NilSchema, err |-> <<"handler must be a function">>]
    ELSE IF ArgIndex(handler) = 0
    THEN [schema |-> [type |-> "object", properties |-> << >>,
                      required |-> << >>],
          err |-> NilErr]
    ELSE generateSchemaFromType(handler.in[ArgIndex(handler)])

\* The error Register* returns before it touches the registry, if any.
RegisterError(kind, handler) ==
    IF handler.kind # "func" THEN <<"handler must be a function">>
    ELSE IF kind = "tools" /\ GenerateSchema(handler).err # NilErr
    THEN Wrap("failed to generate schema", GenerateSchema(handler).err)
    ELSE NilErr

\* The entry Register* stores.
NewEntry(kind, description, handler) ==
    RegistryEntry(description, handler,
                  IF kind = "tools" THEN GenerateSchema(handler).schema
                  ELSE NilRaw)

NotFoundError(kind, key) ==
    CASE kind = "tools" -> <<"tool not found", key>>
      [] kind = "prompts" -> <<"prompt not found", key>>
      [] kind = "resources" -> <<"resource not found", key>>

ListChangedMethod(kind) ==
    CASE kind = "tools" -> "notifications/tools/list_changed"
      [] kind = "prompts" -> "notifications/prompts/list_changed"
      [] kind = "resources" -> "notifications/resources/list_changed"

\* protocol.Notification(method, nil): no id and no params.
ListChangedMessage(kind) ==
    BaseJSONRPCMessage(NilID, ListChangedMethod(kind), NilRaw, NilRaw, NilErr)

\* Mutant: a name that is already registered keeps its first entry.
StoreEntryKeepFirst(registry, key, entry) ==
    IF key \in DOMAIN registry THEN registry ELSE (key :> entry) @@ registry

\* s.tools[name] = &registeredTool{...}
StoreEntry(registry, key, entry) == (key :> entry) @@ registry

\* RegisterTool / RegisterPrompt / RegisterResource up to the release of
\* the write lock: validate the handler, then store the entry.
Register(kind, key, description, handler) ==
    /\ wpc = "idle"
    /\ ops < MaxOps
    /\ ops' = ops + 1
    /\ lastResult' = [call |-> "Register", err |-> RegisterError(kind, handler)]
    /\ IF RegisterError(kind, handler) # NilErr
       THEN UNCHANGED <<registries, latest, wpc, wop>>
       ELSE LET entry == NewEntry(kind, description, handler) IN
            /\ registries' = [registries EXCEPT
                                ![kind] = StoreEntry(@, key, entry)]
            /\ latest' = [latest EXCEPT
                            ![kind] = (key :> [op |-> "register",
                                               entry |-> entry]) @@ @]
            /\ wpc' = "notify"
            /\ wop' = [kind |-> kind, sawStarted |-> started]
    /\ UNCHANGED <<started, listening, engineVars>>
    /\ UNCHANGED <<lockVars, listVars, clientVars>>
    /\ UNCHANGED netVars

\* Mutant: deregistering an absent key is accepted as a removal.
DeregisterLenient(kind, key) ==
    /\ wpc = "idle"
    /\ ops < MaxOps
    /\ ops' = ops + 1
    /\ lastResult' = [call |-> "Deregister", err |-> NilErr]
    /\ registries' = [registries EXCEPT ![kind] = DeleteKey(@, key)]
    /\ latest' = [latest EXCEPT
                    ![kind] = (key :> [op |-> "deregister",
                                       entry |-> NilRaw]) @@ @]
    /\ wpc' = "notify"
    /\ wop' = [kind |-> kind, sawStarted |-> started]
    /\ UNCHANGED <<started, listening, engineVars>>
    /\ UNCHANGED <<lockVars, listVars, clientVars>>
    /\ UNCHANGED netVars

\* DeregisterTool / DeregisterPrompt / DeregisterResource up to the
\* release of the write lock.
Deregister(kind, key) ==
    /\ wpc = "idle"
    /\ ops < MaxOps
    /\ ops' = ops + 1
    /\ IF key \notin DOMAIN registries[kind]
       THEN /\ lastResult' = [call |-> "Deregister",
                              err |-> NotFoundError(kind, key)]
            /\ UNCHANGED <<registries, latest, wpc, wop>>
       ELSE /\ lastResult' = [call |-> "Deregister", err |-> NilErr]
            /\ registries' = [registries EXCEPT ![kind] = DeleteKey(@, key)]
            /\ latest' = [latest EXCEPT
                            ![kind] = (key :> [op |-> "deregister",
                                               entry |-> NilRaw]) @@ @]
            /\ wpc' = "notify"
            /\ wop' = [kind |-> kind, sawStarted |-> started]
    /\ UNCHANGED <<started, listening, engineVars>>
    /\ UNCHANGED <<lockVars, listVars, clientVars>>
    /\ UNCHANGED netVars

\* Mutant: the notification is sent whether or not the server has started.
sendListChangedNotificationAlways(fail) ==
    /\ wpc = "notify"
    /\ LET msg == ListChangedMessage(wop.kind)
           out == TransportSend(transportKind, closed, msg, fail) IN
       /\ sent' = Append(sent, SendRecord(msg, out))
       /\ notifications' = Append(notifications, out.err)
    /\ wpc' = "idle"
    /\ wop' = NoOp
    /\ UNCHANGED <<registries, started, listening, ops, latest, lastResult,
                   transportKind, closed, requestID, pendingRequests,
                   responseChan, callVars, taskVars, handlerVars,
                   handlerCalls, dispatched, panicked>>
    /\ UNCHANGED <<lockVars, listVars, clientVars>>
    /\ UNCHANGED netVars

\* sendToolsListChangedNotification and its two siblings: read started
\* under the read lock, and call protocol.Notification if it is set.
sendListChangedNotification(fail) ==
    /\ wpc = "notify"
    /\ IF started
       THEN LET msg == ListChangedMessage(wop.kind)
                out == TransportSend(transportKind, closed, msg, fail) IN
            /\ sent' = Append(sent, SendRecord(msg, out))
            /\ notifications' = Append(notifications, out.err)
       ELSE UNCHANGED <<sent, notifications>>
    /\ wpc' = "idle"
    /\ wop' = NoOp
    /\ UNCHANGED <<registries, started, listening, ops, latest, lastResult,
                   transportKind, closed, requestID, pendingRequests,
                   responseChan, callVars, taskVars, handlerVars,
                   handlerCalls, dispatched, panicked>>
    /\ UNCHANGED <<lockVars, listVars, clientVars>>
    /\ UNCHANGED netVars

\* transport.Start: the pipe, push-stream and HTTP client transports
\* refuse to start once closed; the HTTP server transport builds a new
\* http.Server and listens, whatever happened before.
TransportStart(kind, isClosed) ==
    IF kind \in {"stdio", "sse", "httpClient"} /\ isClosed
    THEN ErrTransportClosed
    ELSE NilErr

\* MCPServer.Serve: protocol.Connect, then started = true.
Serve ==
    /\ LET err == TransportStart(transportKind, closed) IN
       IF err # NilErr
       THEN /\ lastResult' =
                 [call |-> "Serve",
                  err |-> Wrap("failed to connect protocol", err)]
            /\ UNCHANGED <<started, listening>>
       ELSE /\ lastResult' = [call |-> "Serve", err |-> NilErr]
            /\ started' = TRUE
            /\ listening' = TRUE
    /\ UNCHANGED <<registries, wpc, wop, ops, latest, engineVars>>
    /\ UNCHANGED <<lockVars, listVars, clientVars>>
    /\ UNCHANGED netVars

\* MCPServer.Close: protocol.Close, that is transport.Close.
ServerClose ==
    /\ closed' = TRUE
    /\ listening' = FALSE
    /\ lastResult' = [call |-> "Close", err |-> NilErr]
    /\ UNCHANGED <<registries, started, wpc, wop, ops, latest,
                   transportKind, requestID, pendingRequests, responseChan,
                   callVars, taskVars, handlerVars, sent, handlerCalls,
                   dispatched, notifications, panicked>>
    /\ UNCHANGED <<lockVars, listVars, clientVars>>
    /\ UNCHANGED netVars

\* ---------------------------------------------------------- listing ----
\* HasTool / HasPrompt / HasResource
HasEntry(kind, key) == key \in DOMAIN registries[kind]

Cursor(text) == [present |-> TRUE, text |-> text]

\* base64.StdEncoding.EncodeToString([]byte(key))
Base64Encode(key) == IF key = EmptyKey THEN << >> ELSE <<key>>

\* base64.StdEncoding.DecodeString(text); any other text is malformed.
Base64Decode(text) ==
    IF text = << >> THEN [key |-> EmptyKey, err |-> FALSE]
    ELSE IF Len(text) = 1 /\ text[1] \in Keys \ {EmptyKey}
    THEN [key |-> text[1], err |-> FALSE]
    ELSE [key |-> EmptyKey, err |-> TRUE]

RECURSIVE SortKeys(_)
\* The keys collected from the map, after sort.Slice by key.
SortKeys(keys) ==
    IF keys = {} THEN << >>
    ELSE LET least == CHOOSE k \in keys : \A other \in keys : k <= other
         IN <<least>> \o SortKeys(keys \ {least})

\* The loop that looks for the first item after the cursor: the index
\* (from 0) of the first key greater than lastItem, and 0 when there is
\* none.
StartAfter(allKeys, lastItem) ==
    LET after == {i \in 1..Len(allKeys) : allKeys[i] > lastItem} IN
    IF after = {} THEN 0
    ELSE (CHOOSE i \in after : \A j \in after : i <= j) - 1

\* startIndex as handleToolsList computes it from the cursor.
StartIndex(allKeys, cursor) ==
    IF cursor.present /\ cursor.text # << >>
    THEN IF Base64Decode(cursor.text).err THEN 0
         ELSE StartAfter(allKeys, Base64Decode(cursor.text).key)
    ELSE 0

\* endIndex: the page is cut when a limit is set and more items remain.
ListEndIndex(startIndex, limit, n) ==
    IF limit > 0 /\ startIndex + limit < n THEN startIndex + limit ELSE n

ListItem(registry, key) ==
    [key |-> key, description |-> registry[key].description,
     schema |-> registry[key].schema]

\* handleToolsList / handlePromptsList / handleResourcesList on a registry:
\* the items of the page and the cursor of the next one.
handleList(registry, cursor, limit) ==
    LET allKeys == SortKeys(DOMAIN registry)
        startIndex == StartIndex(allKeys, cursor)
        endIndex == ListEndIndex(startIndex, limit, Len(allKeys))
        paged == limit > 0 /\ startIndex + limit < Len(allKeys)
    IN [items |-> [i \in 1..(endIndex - startIndex) |->
                     ListItem(registry, allKeys[startIndex + i])],
        nextCursor |-> IF paged THEN Cursor(Base64Encode(allKeys[endIndex]))
                       ELSE NoCursor]

\* The transports an MCP server is built on.
ServerTransportKinds == {"stdio", "sse", "httpServer"}

InitServerTransport == Init /\ transportKind \in ServerTransportKinds

\* The descriptions and handlers the application registers with.
Registrations ==
    {<<"d1", F1>>, <<"d2", F2>>, <<"d1", NotFunc>>, <<"d2", BadArg>>}

\* The registries under every sequence of registrations and
\* deregistrations, on a server that is not serving.
NextRegistry ==
    \/ \E kind \in Kinds, key \in Keys, r \in Registrations :
          Register(kind, key, r[1], r[2])
    \/ \E kind \in Kinds, key \in Keys : Deregister(kind, key)
    \/ \E fail \in BOOLEAN : sendListChangedNotification(fail)

SpecRegistry == InitPipe /\ [][NextRegistry]_vars

\* A server that is started and closed while the application registers
\* and deregisters one key of each kind.
ServedKeys == {1}
ServedRegistrations == {<<"d1", F1>>, <<"d1", NotFunc>>}

NextServer ==
    \/ \E kind \in Kinds, key \in ServedKeys, r \in ServedRegistrations :
          Register(kind, key, r[1], r[2])
    \/ \E kind \in Kinds, key \in ServedKeys : Deregister(kind, key)
    \/ \E fail \in BOOLEAN : sendListChangedNotification(fail)
    \/ Serve
    \/ ServerClose

SpecServer == InitServerTransport /\ [][NextServer]_vars

\* ---------------------------------------------------- MCPServer.mu ----
\* The handlers and queries that read a registry map, and the map each
\* of them reads.
MapReaders ==
    {"tools/list", "prompts/list", "resources/list",
     "HasTool", "HasPrompt", "HasResource",
     "tools/call", "prompts/get", "resources/read"}

ReaderKind(handler) ==
    CASE handler \in {"tools/list", "HasTool", "tools/call"} -> "tools"
      [] handler \in {"prompts/list", "HasPrompt", "prompts/get"} -> "prompts"
      [] handler \in {"resources/list", "HasResource", "resources/read"} ->
           "resources"

\* Whether the reader calls s.mu.RLock() before it reads the map: the list
\* handlers and Has* do, handleToolCall, handlePromptsGet and
\* handleResourceRead index the map directly.
TakesRLock(handler) ==
    handler \notin {"tools/call", "prompts/get", "resources/read"}

\* The keys and the entry the application writes while handlers read.
LockedKeys == {1}
LockedEntry(kind) == NewEntry(kind, "d1", F1)

\* s.mu.Lock() of Register* (op "register") or Deregister* (op
\* "deregister"): the application goroutine enters its critical section.
WriteLock(op, kind, key) ==
    /\ ~panicked
    /\ wpc = "idle"
    /\ ops < MaxOps
    /\ ~muWriter
    /\ muReaders = {}
    /\ muWriter' = TRUE
    /\ wcrit' = [op |-> op, kind |-> kind, key |-> key,
                 entry |-> IF op = "register" THEN LockedEntry(kind)
                           ELSE NilRaw]
    /\ wpc' = "locked"
    /\ rop' = [t \in Tasks |->
                 IF rpc[t] = "reading" /\ rop[t].kind = kind
                 THEN [rop[t] EXCEPT !.raced = TRUE] ELSE rop[t]]
    /\ UNCHANGED <<registries, started, listening, wop, ops, latest,
                   lastResult, muReaders, rpc, engineVars, listVars,
                   clientVars>>
    /\ UNCHANGED netVars

\* The map write and s.mu.Unlock(): the store of Register*, or the lookup
\* and delete of Deregister*.
WriteUnlock ==
    /\ ~panicked
    /\ wpc = "locked"
    /\ muWriter
    /\ muWriter' = FALSE
    /\ wcrit' = NoWrite
    /\ ops' = ops + 1
    /\ LET kind == wcrit.kind
           key == wcrit.key IN
       IF wcrit.op = "deregister" /\ key \notin DOMAIN registries[kind]
       THEN /\ lastResult' = [call |-> "Deregister",
                              err |-> NotFoundError(kind, key)]
            /\ wpc' = "idle"
            /\ UNCHANGED <<registries, latest, wop>>
       ELSE /\ lastResult' =
                 [call |-> IF wcrit.op = "register" THEN "Register"
                           ELSE "Deregister",
                  err |-> NilErr]
            /\ registries' =
                 [registries EXCEPT
                    ![kind] = IF wcrit.op = "register"
                              THEN StoreEntry(@, key, wcrit.entry)
                              ELSE DeleteKey(@, key)]
            /\ latest' = [latest EXCEPT
                            ![kind] = (key :> [op |-> wcrit.op,
                                               entry |-> wcrit.entry]) @@ @]
            /\ wpc' = "notify"
            /\ wop' = [kind |-> kind, sawStarted |-> started]
    /\ UNCHANGED <<started, listening, muReaders, rpc, rop, engineVars,
                   listVars, clientVars>>
    /\ UNCHANGED netVars

\* A handler goroutine starts to read a registry map: after s.mu.RLock()
\* if the handler takes it, at once if it does not.
ReadBegin(t, handler) ==
    /\ ~panicked
    /\ rpc[t] = "idle"
    /\ TakesRLock(handler) => ~muWriter
    /\ muReaders' = IF TakesRLock(handler) THEN muReaders \cup {t}
                    ELSE muReaders
    /\ rpc' = [rpc EXCEPT ![t] = "reading"]
    /\ rop' = [rop EXCEPT
                 ![t] = [handler |-> handler, kind |-> ReaderKind(handler),
                         raced |-> muWriter /\
                                   wcrit.kind = ReaderKind(handler)]]
    /\ UNCHANGED <<serverVars, muWriter, wcrit, engineVars, listVars,
                   clientVars>>
    /\ UNCHANGED netVars

\* The read is over, and the read lock released if it was taken.  A read
\* that ran while the map was being written is a data race: it may pass
\* unnoticed, or the runtime may stop the process ("concurrent map read
\* and map write").
ReadEnd(t, fatal) ==
    /\ ~panicked
    /\ rpc[t] = "reading"
    /\ fatal => rop[t].raced
    /\ panicked' = fatal
    /\ muReaders' = muReaders \ {t}
    /\ rpc' = [rpc EXCEPT ![t] = "idle"]
    /\ rop' = [rop EXCEPT ![t] = NoRead]
    /\ UNCHANGED <<serverVars, muWriter, wcrit, listVars, clientVars,
                   transportKind, closed, requestID, pendingRequests,
                   responseChan, callVars, taskVars, handlerVars, sent,
                   handlerCalls, dispatched, notifications>>
    /\ UNCHANGED netVars

\* Handlers read the registries while the application registers and
\* deregisters, each step taken at the grain of the lock.
NextLock ==
    \/ \E op \in {"register", "deregister"}, kind \in Kinds,
          key \in LockedKeys : WriteLock(op, kind, key)
    \/ WriteUnlock
    \/ \E fail \in BOOLEAN : sendListChangedNotification(fail)
    \/ \E t \in Tasks, handler \in MapReaders : ReadBegin(t, handler)
    \/ \E t \in Tasks, fatal \in BOOLEAN : ReadEnd(t, fatal)

SpecLock == InitPipe /\ [][NextLock]_vars

\* ------------------------------------------------- following cursors ----
\* The methods NewServer registers a request handler for.
ServerMethods ==
    {"initialize", "tools/list", "tools/call", "prompts/list", "prompts/get",
     "resources/list", "resources/read", "ping"}

MaxLimit == 2
MaxBatches == 4

\* The entry of a registry built before the peer starts to list.
ListedEntry(kind) == NewEntry(kind, "d1", F1)

\* A server built with WithPaginationLimit(limit) whose application has
\* registered some keys of one kind, and a peer about to list that kind.
InitListing ==
    /\ InitEngineState
    /\ transportKind = "stdio"
    /\ requestHandlers = ServerMethods
    /\ notificationHandlers = {}
    /\ InitServerState
    /\ InitClient
    /\ InitLifecycle(DefaultTransport(transportKind))
    /\ InitSessions
    /\ InitHTTP
    /\ paginationLimit \in 0..MaxLimit
    /\ walkKind \in Kinds
    /\ \E keys \in SUBSET Keys :
          /\ registries = [kind \in Kinds |->
                             IF kind = walkKind
                             THEN [k \in keys |-> ListedEntry(kind)]
                             ELSE << >>]
          /\ latest = [kind \in Kinds |->
                         IF kind = walkKind
                         THEN [k \in keys |->
                                 [op |-> "register",
                                  entry |-> ListedEntry(kind)]]
                         ELSE << >>]
    /\ walk = << >>
    /\ walkCursor = NoCursor
    /\ walkState = "fresh"
    /\ lastList = NoList
    /\ lastCall = NoCall

\* The keys of a page, in the order of the page.
PageKeys(items) == [i \in 1..Len(items) |-> items[i].key]

\* The peer calls tools/list, prompts/list or resources/list with the
\* cursor of the last answer (none on its first call), and the list
\* handler answers from the registry as it is now.
ListCall ==
    /\ ~panicked
    /\ walkState \in {"fresh", "more"}
    /\ Len(walk) < MaxBatches
    /\ LET r == handleList(registries[walkKind], walkCursor, paginationLimit)
       IN /\ walk' = Append(walk, PageKeys(r.items))
          /\ walkCursor' = r.nextCursor
          /\ walkState' = IF r.nextCursor.present THEN "more" ELSE "done"
          /\ lastList' = [called |-> TRUE, cursor |-> walkCursor,
                          keys |-> PageKeys(r.items)]
    /\ UNCHANGED <<serverVars, lockVars, clientVars, engineVars,
                   paginationLimit, walkKind, lastCall>>
    /\ UNCHANGED netVars

\* A peer follows the cursors while the application registers and
\* deregisters keys of the kind it lists.
NextListing ==
    \/ ListCall
    \/ \E key \in Keys : Register(walkKind, key, "d1", F1)
    \/ \E key \in Keys : Deregister(walkKind, key)
    \/ \E fail \in BOOLEAN : sendListChangedNotification(fail)

SpecListing == InitListing /\ [][NextListing]_vars

\* --------------------------------------------------- calls, lookups ----
MaxCalls == 1

\* The methods that look a key up in a registry and call its handler.
CallMethods == {"tools/call", "prompts/get", "resources/read"}

\* What the params of such a request hold: not an object, an object
\* without the name (the uri for a resource), or an object with it.
ParamsShapes == {"notMap", "noName", "named"}

\* What the application's handler does when it is called.
HandlerOutcomes == {"ok", "err"}
ErrHandler == <<"handler failed">>

TextContent(text) == [type |-> "text", text |-> text]

ToolResponse(content, isError) ==
    [type |-> "ToolResponse", isError |-> isError, content |-> content]

\* Mutant: an unknown tool is returned as a Go error.
handleToolCallRaises(registry, shape, key, hret) ==
    IF shape = "notMap"
    THEN [result |-> NilValue, err |-> <<"invalid params type">>]
    ELSE IF shape = "noName"
    THEN [result |-> NilValue, err |-> <<"missing tool name">>]
    ELSE IF key \notin DOMAIN registry
    THEN [result |-> NilValue, err |-> <<"unknown tool", key>>]
    ELSE IF hret = "err"
    THEN [result |-> ToolResponse(<<TextContent(<<"Error">> \o ErrHandler)>>,
                                  TRUE),
          err |-> NilErr]
    ELSE [result |-> ToolResponse(<<TextContent(<<"done">>)>>, FALSE),
          err |-> NilErr]

\* handleToolCall: the (result, error) it returns to the engine.
handleToolCall(registry, shape, key, hret) ==
    IF shape = "notMap"
    THEN [result |-> NilValue, err |-> <<"invalid params type">>]
    ELSE IF shape = "noName"
    THEN [result |-> NilValue, err |-> <<"missing tool name">>]
    ELSE IF key \notin DOMAIN registry
    THEN [result |-> ToolResponse(<<TextContent(<<"Unknown tool", key>>)>>,
                                  TRUE),
          err |-> NilErr]
    ELSE IF hret = "err"
    THEN [result |-> ToolResponse(<<TextContent(<<"Error">> \o ErrHandler)>>,
                                  TRUE),
          err |-> NilErr]
    ELSE [result |-> ToolResponse(<<TextContent(<<"done">>)>>, FALSE),
          err |-> NilErr]

\* handlePromptsGet
handlePromptsGet(registry, shape, key, hret) ==
    IF shape = "notMap"
    THEN [result |-> NilValue, err |-> <<"invalid params type">>]
    ELSE IF shape = "noName"
    THEN [result |-> NilValue, err |-> <<"missing prompt name">>]
    ELSE IF key \notin DOMAIN registry
    THEN [result |-> NilValue, err |-> <<"unknown prompt", key>>]
    ELSE IF hret = "err"
    THEN [result |-> NilValue,
          err |-> Wrap("error calling prompt handler", ErrHandler)]
    ELSE [result |-> [type |-> "PromptResponse", isError |-> FALSE,
                      content |-> << >>],
          err |-> NilErr]

\* handleResourceRead
handleResourceRead(registry, shape, key, hret) ==
    IF shape = "notMap"
    THEN [result |-> NilValue, err |-> <<"invalid params type">>]
    ELSE IF shape = "noName"
    THEN [result |-> NilValue, err |-> <<"missing resource URI">>]
    ELSE IF key \notin DOMAIN registry
    THEN [result |-> NilValue, err |-> <<"unknown resource", key>>]
    ELSE IF hret = "err"
    THEN [result |-> NilValue,
          err |-> Wrap("error calling resource handler", ErrHandler)]
    ELSE [result |-> [type |-> "ResourceResponse", isError |-> FALSE,
                      content |-> << >>],
          err |-> NilErr]

\* The registry a method looks its key up in.
MethodKind(method) ==
    CASE method = "tools/call" -> "tools"
      [] method = "prompts/get" -> "prompts"
      [] method = "resources/read" -> "resources"

\* The handler NewServer registered for the method.
ServerHandler(method, shape, key, hret) ==
    CASE method = "tools/call" ->
           handleToolCall(registries["tools"], shape, key, hret)
      [] method = "prompts/get" ->
           handlePromptsGet(registries["prompts"], shape, key, hret)
      [] method = "resources/read" ->
           handleResourceRead(registries["resources"], shape, key, hret)

\* json.Marshal of a handler's result; isError is left out of a
\* ToolResponse when it is false (omitempty).
JSONMarshal(value) ==
    CASE value.type = "nil" -> "null"
      [] value.type = "ToolResponse" /\ value.isError ->
           "{content,isError:true}"
      [] value.type = "ToolResponse" /\ ~value.isError -> "{content}"
      [] value.type = "PromptResponse" -> "{messages}"
      [] value.type = "ResourceResponse" -> "{contents}"

\* The response handleRequest builds from what the handler returned.
ServerResponse(msg, returned) ==
    IF returned.err # NilErr
    THEN RequestResponse(msg, requestHandlers, "err")
    ELSE IF msg.method \in requestHandlers /\ ParamsParse(msg.params)
    THEN ResultResponse(msg.id, JSONMarshal(returned.result))
    ELSE RequestResponse(msg, requestHandlers, "ok")

\* handleRequest for a tools/call, prompts/get or resources/read request
\* of the peer: the server's handler runs and its response is sent.
serveCall(t, method, shape, key, hret, fail) ==
    /\ Deliverable(t)
    /\ dispatched < MaxCalls
    /\ dispatched' = dispatched + 1
    /\ LET msg == BaseJSONRPCMessage(dispatched + 1, method, "{}", NilRaw,
                                     NilErr)
           returned == ServerHandler(method, shape, key, hret)
           response == ServerResponse(msg, returned)
           out == TransportSend(transportKind, closed, response, fail) IN
       /\ sent' = Append(sent, SendRecord(response, out))
       /\ lastCall' = [called |-> TRUE, method |-> method,
                       params |-> shape,
                       known |-> shape = "named" /\
                                 key \in DOMAIN registries[MethodKind(method)],
                       hret |-> hret, returned |-> returned,
                       response |-> response]
    /\ handlerCalls' =
         IF RequestHandlerInvoked(
                BaseJSONRPCMessage(dispatched + 1, method, "{}", NilRaw,
                                   NilErr), requestHandlers)
         THEN [handlerCalls EXCEPT !.request = @ + 1]
         ELSE handlerCalls
    /\ UNCHANGED <<serverVars, lockVars, clientVars, paginationLimit,
                   walkKind, walk, walkCursor, walkState, lastList,
                   transportKind, closed, requestID, pendingRequests,
                   responseChan, callVars, taskVars, handlerVars,
                   notifications, panicked>>
    /\ UNCHANGED netVars

\* The peer calls tools, gets prompts and reads resources of a server
\* whose application registered some keys of one kind.
NextCall ==
    \E t \in Tasks, method \in CallMethods, shape \in ParamsShapes,
       key \in Keys, hret \in HandlerOutcomes, fail \in BOOLEAN :
        serveCall(t, method, shape, key, hret, fail)

SpecCall == InitListing /\ [][NextCall]_vars

\* --------------------------------------------- handler signatures ----
\* The argument structs with at most MaxFields fields of the pool.
SchemaStructs ==
    {StructType(l) : l \in UNION {FieldLists(n) : n \in 0..MaxFields}}

\* The handlers an application registers tools with: func(args S) for
\* every such S; func(ctx context.Context, args S), func(args *S), func(),
\* func(ctx context.Context) and func(ctx context.Context, s string) for
\* some; a function of a string; a value that is no function.
SchemaHandlers ==
    {FuncType(<<S>>) : S \in SchemaStructs} \cup
    {FuncType(<<ContextType, S>>) : S \in {S1, S2}} \cup
    {FuncType(<<PtrType(S1)>>), FuncType(<< >>), FuncType(<<ContextType>>),
     FuncType(<<ContextType, ScalarType("string")>>), BadArg, NotFunc}

\* An application registers tools under one name with handlers of every
\* signature.
NextSchema ==
    \/ \E key \in ServedKeys, handler \in SchemaHandlers :
          Register("tools", key, "d1", handler)
    \/ \E fail \in BOOLEAN : sendListChangedNotification(fail)

SpecSchema == InitPipe /\ [][NextSchema]_vars

\* ======================================================= MCP client ====
MaxClientCalls == 2

\* The transports an MCP client is built on.
ClientTransportKinds == {"stdio", "sse", "httpClient"}

InitClientTransport == Init /\ transportKind \in ClientTransportKinds

\* The request each client method other than Initialize sends.
ClientMethods ==
    {"tools/list", "tools/call", "prompts/list", "prompts/get",
     "resources/list", "resources/read", "ping"}

\* How a request that was sent ends: the peer answers with a result or
\* with an error, or the caller's context is done first.
RequestOutcomes == {"result", "rpcError", "ctxDone"}

ErrNotInitialized == <<"client not initialized">>
ErrAlreadyInitialized == <<"client already initialized">>
ErrParse == <<"json: cannot unmarshal">>

\* Mutant: the methods do not look at c.initialized.
InitializedGateOpen(isInitialized) == NilErr

\* if !c.initialized { return nil, fmt.Errorf("client not initialized") }
InitializedGate(isInitialized) ==
    IF isInitialized THEN NilErr ELSE ErrNotInitialized

\* The envelope protocol.Request builds; Ping passes nil params.
ClientRequestMessage(id, method) ==
    BaseJSONRPCMessage(id, method,
                       IF method = "ping" THEN NilRaw ELSE "{}",
                       NilRaw, NilErr)

\* What protocol.Request returns to the client method.
ClientRequestReturn(msg, out, outcome) ==
    IF out.err # NilErr THEN SendErrorReturn(out.err)
    ELSE CASE outcome = "result" ->
                ResponseReturn(ResultResponse(msg.id, "r1"))
           [] outcome = "rpcError" ->
                ResponseReturn(ErrorResponse(msg.id, -32600,
                                             "Invalid Request"))
           [] outcome = "ctxDone" -> CtxReturn(ErrCanceled)

\* mcpClient.Initialize, from the call to its return.  The pending slot
\* that protocol.Request stores is deleted again before it returns.
Initialize(startFail, fail, outcome, parseOK) ==
    /\ ~panicked
    /\ clientCalls < MaxClientCalls
    /\ clientCalls' = clientCalls + 1
    /\ LET startErr == IF startFail THEN ErrTransportIO
                       ELSE TransportStart(transportKind, closed)
           id == NextRequestID(requestID)
           msg == ClientRequestMessage(id, "initialize")
           out == TransportSend(transportKind, closed, msg, fail)
           r == ClientRequestReturn(msg, out, outcome) IN
       IF initialized
       THEN /\ clientResult' = [call |-> "Initialize",
                                err |-> ErrAlreadyInitialized]
            /\ UNCHANGED <<initialized, capabilities, requestID, sent>>
       ELSE IF startErr # NilErr
       THEN /\ clientResult' =
                 [call |-> "Initialize",
                  err |-> Wrap("failed to connect protocol", startErr)]
            /\ UNCHANGED <<initialized, capabilities, requestID, sent>>
       ELSE /\ requestID' = id
            /\ sent' = Append(sent, SendRecord(msg, out))
            /\ IF r.err # NilErr
               THEN /\ clientResult' =
                         [call |-> "Initialize",
                          err |-> Wrap("initialize request failed", r.err)]
                    /\ UNCHANGED <<initialized, capabilities>>
               ELSE IF ~parseOK
               THEN /\ clientResult' =
                         [call |-> "Initialize",
                          err |-> Wrap("failed to parse initialize response",
                                       ErrParse)]
                    /\ UNCHANGED <<initialized, capabilities>>
               ELSE /\ clientResult' = [call |-> "Initialize",
                                        err |-> NilErr]
                    /\ capabilities' = r.result
                    /\ initialized' = TRUE
    /\ UNCHANGED <<serverVars, lockVars, listVars, transportKind, closed,
                   pendingRequests, responseChan, callVars, taskVars,
                   handlerVars, handlerCalls, dispatched, notifications,
                   panicked>>
    /\ UNCHANGED netVars

\* ListTools, CallTool, ListPrompts, GetPrompt, ListResources,
\* ReadResource and Ping, from the call to the return; Ping does not parse
\* the response.
ClientCall(method, fail, outcome, parseOK) ==
    /\ ~panicked
    /\ clientCalls < MaxClientCalls
    /\ clientCalls' = clientCalls + 1
    /\ LET id == NextRequestID(requestID)
           msg == ClientRequestMessage(id, method)
           out == TransportSend(transportKind, closed, msg, fail)
           r == ClientRequestReturn(msg, out, outcome) IN
       IF InitializedGate(initialized) # NilErr
       THEN /\ clientResult' = [call |-> method,
                                err |-> InitializedGate(initialized)]
            /\ UNCHANGED <<requestID, sent>>
       ELSE /\ requestID' = id
            /\ sent' = Append(sent, SendRecord(msg, out))
            /\ clientResult' =
                 [call |-> method,
                  err |-> IF r.err # NilErr
                          THEN <<method, "request failed">> \o r.err
                          ELSE IF method # "ping" /\ ~parseOK
                          THEN <<"failed to parse", method, "response">>
                               \o ErrParse
                          ELSE NilErr]
    /\ UNCHANGED <<serverVars, lockVars, listVars, initialized, capabilities,
                   transportKind, closed, pendingRequests, responseChan,
                   callVars, taskVars, handlerVars, handlerCalls, dispatched,
                   notifications, panicked>>
    /\ UNCHANGED netVars

\* An application calls the methods of one client, one after the other,
\* and may close it.
NextClient ==
    \/ \E startFail, fail, parseOK \in BOOLEAN, outcome \in RequestOutcomes :
          Initialize(startFail, fail, outcome, parseOK)
    \/ \E method \in ClientMethods, fail, parseOK \in BOOLEAN,
          outcome \in RequestOutcomes :
          ClientCall(method, fail, outcome, parseOK)
    \/ Close

SpecClient == InitClientTransport /\ [][NextClient]_vars

\* ------------------------------------------------- Start and Close ----
MaxLifeCalls == 4

\* What a Start that gets past its closed test launches: the pipe server
\* a readLoop; the pipe client a child process, a readLoop and a
\* readStderrLoop; the push-stream server and the HTTP server a goroutine
\* in ListenAndServe; the push-stream client a goroutine in connectSSE,
\* which reads the stream; the HTTP client nothing.
Launches(t) ==
    CASE t = "stdioServer" ->
           [readLoops |-> 1, serveLoops |-> 0, children |-> 0]
      [] t = "stdioClient" ->
           [readLoops |-> 2, serveLoops |-> 0, children |-> 1]
      [] t \in {"sseServer", "httpServer"} ->
           [readLoops |-> 0, serveLoops |-> 1, children |-> 0]
      [] t = "sseClient" ->
           [readLoops |-> 1, serveLoops |-> 0, children |-> 0]
      [] OTHER -> NoLaunch

AddLaunch(a, b) ==
    [readLoops |-> a.readLoops + b.readLoops,
     serveLoops |-> a.serveLoops + b.serveLoops,
     children |-> a.children + b.children]

\* The transport has a closed field that its Close sets and tests.
HasClosedField(t) == t # "httpServer"

LifeBefore(call, err) ==
    [call |-> call, err |-> err, closedBefore |-> tclosed,
     launchedBefore |-> launched, handlerCallsBefore |-> closeHandlerCalls,
     startsOKBefore |-> startsOK, closeCallsBefore |-> closeCalls]

ErrStartProcess == <<"failed to start server process">>

\* The handlers an http.Server can be given: the mux of the transport's
\* endpoints, alone or inside middleware.  A handler is written from
\* the outside in.
Mux == <<"mux">>

\* middleware[i](handler)
WrapHandler(m, handler) == <<m>> \o handler

\* The loop of Start over t.middleware, from its last index down to its
\* first: handler = t.middleware[i](handler).
RECURSIVE ChainFrom(_, _, _)
ChainFrom(mw, i, handler) ==
    IF i < 1 THEN handler
    ELSE ChainFrom(mw, i - 1, WrapHandler(mw[i], handler))

\* The handler Start of the push-stream server gives its http.Server.
ChainMiddleware(mw) == ChainFrom(mw, Len(mw), Mux)

\* Start of each transport.  cmdFail: the pipe client's cmd.Start fails.
Start(cmdFail) ==
    /\ startCalls + closeCalls < MaxLifeCalls
    /\ cmdFail => transport = "stdioClient"
    /\ LET refused == TransportStart(KindOf(transport), tclosed)
           err == IF refused # NilErr THEN refused
                  ELSE IF cmdFail THEN ErrStartProcess
                  ELSE NilErr
       IN /\ launched' = IF err = NilErr
                         THEN AddLaunch(launched, Launches(transport))
                         ELSE launched
          /\ startsOK' = IF err = NilErr THEN startsOK + 1 ELSE startsOK
          /\ lastLife' = LifeBefore("Start", err)
          /\ serverHandler' = IF err = NilErr /\ transport = "sseServer"
                              THEN ChainMiddleware(middleware)
                              ELSE serverHandler
    /\ startCalls' = startCalls + 1
    /\ UNCHANGED <<transport, tclosed, closeHandlerCalls, closeCalls>>
    /\ UNCHANGED <<middleware, served, pipeVars, exchangeVars>>
    /\ UNCHANGED <<engineVars, serverVars, lockVars, listVars, clientVars,
                   sseVars>>

AlreadyClosed(t, isClosed) == HasClosedField(t) /\ isClosed

\* Close of each transport: under the lock, nothing if closed is set;
\* else closed is set and the closeHandler called.  The HTTP server
\* transport shuts its http.Server down and calls the closeHandler.
TransportClose ==
    /\ startCalls + closeCalls < MaxLifeCalls
    /\ IF AlreadyClosed(transport, tclosed)
       THEN UNCHANGED <<tclosed, closeHandlerCalls>>
       ELSE /\ tclosed' = HasClosedField(transport)
            /\ closeHandlerCalls' = closeHandlerCalls + 1
    /\ lastLife' = LifeBefore("Close", NilErr)
    /\ closeCalls' = closeCalls + 1
    /\ UNCHANGED <<transport, launched, startCalls, startsOK>>
    /\ UNCHANGED <<engineVars, serverVars, lockVars, listVars, clientVars,
                   sseVars, wireVars>>

\* An application starts and closes one transport, in any order.
InitTransport ==
    /\ InitEngineState
    /\ requestHandlers = {}
    /\ notificationHandlers = {}
    /\ InitServer
    /\ paginationLimit = DefaultPaginationLimit
    /\ InitWalk
    /\ InitClient
    /\ \E t \in Transports : KindOf(t) = transportKind /\ InitLifecycle(t)
    /\ InitSessions
    /\ InitHTTP

NextTransport ==
    \/ \E cmdFail \in BOOLEAN : Start(cmdFail)
    \/ TransportClose

SpecTransport == InitTransport /\ [][NextTransport]_vars

\* -------------------------------------------------- HTTP middleware ----
MaxMiddleware == 3

Middlewares == {"auth", "logging", "cors"}

lifeFrame == <<engineVars, serverVars, lockVars, listVars, clientVars,
               lifeVars, sseVars, pipeVars, exchangeVars>>

\* WithMiddleware: t.middleware = append(t.middleware, middleware...)
WithMiddleware(ms) ==
    /\ Len(middleware) + Len(ms) <= MaxMiddleware
    /\ middleware' = middleware \o ms
    /\ UNCHANGED <<serverHandler, served, lifeFrame>>

\* The part of a handler a request reaches when the wrapper at position
\* stop answers it itself, as a middleware that refuses a request does;
\* stop = Len(handler): every wrapper calls next.ServeHTTP.
Reached(handler, stop) == SubSeq(handler, 1, stop)

RECURSIVE Reverse(_)
Reverse(seq) ==
    IF seq = << >> THEN << >>
    ELSE Reverse(Tail(seq)) \o <<Head(seq)>>

\* http.Server serves one request with server.Handler: each wrapper
\* runs, calls the handler it wraps, and runs again after that handler
\* has returned.
ServeHTTPChain(stop) ==
    /\ serverHandler # NoHandler
    /\ launched.serveLoops > 0
    /\ ~tclosed
    /\ stop \in 1..Len(serverHandler)
    /\ served' = [entered |-> Reached(serverHandler, stop),
                  left |-> Reverse(Reached(serverHandler, stop))]
    /\ UNCHANGED <<middleware, serverHandler, lifeFrame>>

\* The middleware one call of WithMiddleware is given.
MiddlewareArgs ==
    { <<m>> : m \in Middlewares } \cup
    { <<m, n>> : <<m, n>> \in Middlewares \X Middlewares }

\* An application builds a push-stream server with middleware, starts
\* it, and clients send it requests.
InitMiddleware == InitTransport /\ transport = "sseServer"

NextMiddleware ==
    \/ \E ms \in MiddlewareArgs : WithMiddleware(ms)
    \/ Start(FALSE)
    \/ TransportClose
    \/ \E stop \in 1..(MaxMiddleware + 1) : ServeHTTPChain(stop)

SpecMiddleware == InitMiddleware /\ [][NextMiddleware]_vars

\* ------------------------------------------------ Send on the pipe ----
MaxPipeSends == 3

pipeFrame == <<engineVars, serverVars, lockVars, listVars, clientVars,
               lifeVars, sseVars, chainVars, exchangeVars>>

ErrMarshalMessage == <<"failed to marshal message">>
ErrPipe == <<"broken pipe">>

\* What a Send call puts on the pipe: the JSON of its envelope, then one
\* newline.  A write that fails may have put a part of the JSON there.
Token(call, part) == [call |-> call, part |-> part]
Frame(call) == <<Token(call, "json"), Token(call, "newline")>>

\* Mutant: mu does not exclude.
MayLockAlways(holder) == TRUE

\* t.mu.Lock() returns when no goroutine holds mu.
MayLock(holder) == holder = NoHolder

SetResult(calls, call, err) == [calls EXCEPT ![call].err = err]

\* Send up to its first write: mu is taken, closed is tested and the
\* envelope is marshalled.
SendLock(k, marshalOK) ==
    /\ sender[k].pc = "idle"
    /\ Len(sendCalls) < MaxPipeSends
    /\ MayLock(wmu)
    /\ wmu' = k
    /\ LET call == Len(sendCalls) + 1
           err == IF tclosed THEN ErrTransportClosed
                  ELSE IF ~marshalOK THEN ErrMarshalMessage
                  ELSE NilErr
       IN /\ sendCalls' = Append(sendCalls,
                                 [sender |-> k, closedBefore |-> tclosed,
                                  marshalOK |-> marshalOK, err |-> err,
                                  returned |-> FALSE])
          /\ sender' = [sender EXCEPT ![k] =
                          [pc |-> IF err = NilErr THEN "write" ELSE "unlock",
                           call |-> call]]
    /\ UNCHANGED <<writer, pipeOut, pipeFrame>>

\* t.writer.Write(data).  bufio: a sticky error is returned at once;
\* data that fits is copied to the buffer; data larger than the buffer
\* goes to the pipe directly (direct), where the write can fail with a
\* part of the data written.
SendWrite(k, direct, fail) ==
    /\ sender[k].pc = "write"
    /\ fail => direct
    /\ direct => writer.buf = << >>
    /\ LET call == sender[k].call IN
       IF writer.err # NilErr
       THEN /\ sendCalls' =
                 SetResult(sendCalls, call,
                           Wrap("failed to write to stdout", writer.err))
            /\ sender' = [sender EXCEPT ![k].pc = "unlock"]
            /\ UNCHANGED <<writer, pipeOut>>
       ELSE IF ~direct
       THEN /\ writer' = [writer EXCEPT
                            !.buf = Append(@, Token(call, "json"))]
            /\ sender' = [sender EXCEPT ![k].pc = "newline"]
            /\ UNCHANGED <<pipeOut, sendCalls>>
       ELSE IF fail
       THEN /\ pipeOut' = Append(pipeOut, Token(call, "part of json"))
            /\ writer' = [writer EXCEPT !.err = ErrPipe]
            /\ sendCalls' =
                 SetResult(sendCalls, call,
                           Wrap("failed to write to stdout", ErrPipe))
            /\ sender' = [sender EXCEPT ![k].pc = "unlock"]
       ELSE /\ pipeOut' = Append(pipeOut, Token(call, "json"))
            /\ sender' = [sender EXCEPT ![k].pc = "newline"]
            /\ UNCHANGED <<writer, sendCalls>>
    /\ UNCHANGED <<wmu, pipeFrame>>

\* t.writer.WriteByte('\n'): into the buffer, which has room after a
\* Write.
SendWriteByte(k) ==
    /\ sender[k].pc = "newline"
    /\ LET call == sender[k].call IN
       IF writer.err # NilErr
       THEN /\ sendCalls' =
                 SetResult(sendCalls, call,
                           Wrap("failed to write newline", writer.err))
            /\ sender' = [sender EXCEPT ![k].pc = "unlock"]
            /\ UNCHANGED writer
       ELSE /\ writer' = [writer EXCEPT
                            !.buf = Append(@, Token(call, "newline"))]
            /\ sender' = [sender EXCEPT ![k].pc = "flush"]
            /\ UNCHANGED sendCalls
    /\ UNCHANGED <<wmu, pipeOut, pipeFrame>>

\* t.writer.Flush(): the buffer goes to the pipe; a write that fails has
\* put the first n of its tokens there.
SendFlush(k, fail, n) ==
    /\ sender[k].pc = "flush"
    /\ n \in 0..(Len(writer.buf) - 1)
    /\ LET call == sender[k].call IN
       IF writer.err # NilErr
       THEN /\ sendCalls' =
                 SetResult(sendCalls, call,
                           Wrap("failed to flush stdout", writer.err))
            /\ UNCHANGED <<writer, pipeOut>>
       ELSE IF fail
       THEN /\ pipeOut' = pipeOut \o SubSeq(writer.buf, 1, n)
            /\ writer' = [buf |-> SubSeq(writer.buf, n + 1,
                                         Len(writer.buf)),
                          err |-> ErrPipe]
            /\ sendCalls' =
                 SetResult(sendCalls, call,
                           Wrap("failed to flush stdout", ErrPipe))
       ELSE /\ pipeOut' = pipeOut \o writer.buf
            /\ writer' = [writer EXCEPT !.buf = << >>]
            /\ sendCalls' = SetResult(sendCalls, call, NilErr)
    /\ sender' = [sender EXCEPT ![k].pc = "unlock"]
    /\ UNCHANGED <<wmu, pipeFrame>>

\* The deferred t.mu.Unlock(); Send returns.
SendUnlock(k) ==
    /\ sender[k].pc = "unlock"
    /\ wmu' = IF wmu = k THEN NoHolder ELSE wmu
    /\ sendCalls' = [sendCalls EXCEPT ![sender[k].call].returned = TRUE]
    /\ sender' = [sender EXCEPT ![k] = NoSender]
    /\ UNCHANGED <<writer, pipeOut, pipeFrame>>

\* Close of the pipe transport takes mu; its Flush finds the buffer
\* empty, or the sticky error of a failed write.
PipeClose ==
    /\ MayLock(wmu)
    /\ TransportClose

\* Goroutines send on one pipe transport while the application closes
\* it.
InitPipeSend ==
    /\ InitTransport
    /\ transport \in {"stdioServer", "stdioClient"}

NextPipeSend ==
    \/ \E k \in Senders, marshalOK \in BOOLEAN : SendLock(k, marshalOK)
    \/ \E k \in Senders, direct \in BOOLEAN, fail \in BOOLEAN :
          SendWrite(k, direct, fail)
    \/ \E k \in Senders : SendWriteByte(k)
    \/ \E k \in Senders, fail \in BOOLEAN, n \in 0..1 :
          SendFlush(k, fail, n)
    \/ \E k \in Senders : SendUnlock(k)
    \/ PipeClose

SpecPipeSend == InitPipeSend /\ [][NextPipeSend]_vars

\* ------------------------------------------ request/reply exchanges ----
exchangeFrame == <<transportKind, closed, requestID, pendingRequests,
                   responseChan, callVars, taskVars, handlerVars, sent,
                   handlerCalls, dispatched, notifications, serverVars,
                   lockVars, listVars, clientVars, lifeVars, sseVars,
                   chainVars, pipeVars>>

\* http.StatusOK ... as ServeHTTP uses them.
StatusOK == 200
StatusBadRequest == 400
StatusMethodNotAllowed == 405
StatusRequestTimeout == 408
StatusInternalServerError == 500

\* The status ServeHTTP answers with, by the way it ends.
ExchangeStatus(outcome) ==
    CASE outcome = "method" -> StatusMethodNotAllowed
      [] outcome = "decode" -> StatusBadRequest
      [] outcome = "nohandler" -> StatusInternalServerError
      [] outcome = "notification" -> StatusOK
      [] outcome = "response" -> StatusOK
      [] outcome = "timeout" -> StatusRequestTimeout
      [] outcome = "cancel" -> StatusRequestTimeout

\* The request a client POSTs: a request with the id, or a notification
\* (no id).
PostedMessage(id) == BaseJSONRPCMessage(id, "ma", "{}", NilRaw, NilErr)

\* SetMessageHandler
HTTPSetMessageHandler ==
    /\ ~messageHandlerSet
    /\ messageHandlerSet' = TRUE
    /\ UNCHANGED <<pendingExchanges, exchange, hsend, panicked,
                   exchangeFrame>>

\* A POST with the id has a slot and its ServeHTTP has not returned.
InFlight(id) ==
    \E d \in Exchanges :
        /\ exchange[d].registered
        /\ exchange[d].id = id
        /\ exchange[d].pc # "done"

\* ServeHTTP up to its select: the method and the body are tested, the
\* handler is read; a notification is handed to the handler in a
\* goroutine and answered; a request gets a channel, stored under its
\* id, and is handed to the handler in a goroutine.
ServeHTTPBegin(e, method, bodyOK, id) ==
    /\ ~panicked
    /\ exchange[e].pc = "idle"
    /\ \A d \in Exchanges : d < e => exchange[d].pc # "idle"
    /\ (method # "POST" \/ ~bodyOK) => id = NilID
    /\ method # "POST" => bodyOK
    /\ LET ended(outcome) ==
             [exchange EXCEPT ![e] =
                [@ EXCEPT !.pc = "return", !.id = id,
                          !.outcome = outcome,
                          !.status = ExchangeStatus(outcome),
                          !.handlerStarted = (outcome = "notification")]]
       IN
       IF method # "POST"
       THEN /\ exchange' = ended("method")
            /\ UNCHANGED pendingExchanges
       ELSE IF ~bodyOK
       THEN /\ exchange' = ended("decode")
            /\ UNCHANGED pendingExchanges
       ELSE IF ~messageHandlerSet
       THEN /\ exchange' = ended("nohandler")
            /\ UNCHANGED pendingExchanges
       ELSE IF id = NilID
       THEN /\ exchange' = ended("notification")
            /\ UNCHANGED pendingExchanges
       ELSE /\ pendingExchanges' = (id :> e) @@ pendingExchanges
            /\ exchange' = [exchange EXCEPT ![e] =
                              [@ EXCEPT !.pc = "wait", !.id = id,
                                        !.registered = TRUE,
                                        !.handlerStarted = TRUE,
                                        !.overlapped = InFlight(id)]]
    /\ UNCHANGED <<messageHandlerSet, hsend, panicked, exchangeFrame>>

\* The client gives the request up: r.Context() is cancelled.
HTTPClientCancel(e) ==
    /\ ~panicked
    /\ exchange[e].pc = "wait"
    /\ ~exchange[e].ctxDone
    /\ exchange' = [exchange EXCEPT ![e].ctxDone = TRUE]
    /\ UNCHANGED <<pendingExchanges, messageHandlerSet, hsend, panicked,
                   exchangeFrame>>

\* The select of ServeHTTP: the response is taken from the channel and
\* encoded as the body; or the timeout fires; or the context is done.
ServeHTTPSelect(e, choice) ==
    /\ ~panicked
    /\ exchange[e].pc = "wait"
    /\ CASE choice = "response" ->
              /\ exchange[e].buf # << >>
              /\ exchange' = [exchange EXCEPT ![e] =
                                [@ EXCEPT !.pc = "delete", !.buf = << >>,
                                          !.body = Head(exchange[e].buf),
                                          !.written = @ + 1,
                                          !.outcome = choice,
                                          !.status = ExchangeStatus(choice)]]
         [] choice = "timeout" ->
              exchange' = [exchange EXCEPT ![e] =
                             [@ EXCEPT !.pc = "delete", !.outcome = choice,
                                       !.status = ExchangeStatus(choice)]]
         [] choice = "cancel" ->
              /\ exchange[e].ctxDone
              /\ exchange' = [exchange EXCEPT ![e] =
                                [@ EXCEPT !.pc = "delete",
                                          !.outcome = choice,
                                          !.status = ExchangeStatus(choice)]]
    /\ UNCHANGED <<pendingExchanges, messageHandlerSet, hsend, panicked,
                   exchangeFrame>>

\* The deferred cleanup, under the lock: delete(t.pendingRequests, req.ID)
ServeHTTPDelete(e) ==
    /\ ~panicked
    /\ exchange[e].pc = "delete"
    /\ pendingExchanges' = DeleteKey(pendingExchanges, exchange[e].id)
    /\ exchange' = [exchange EXCEPT ![e].pc = "close"]
    /\ UNCHANGED <<messageHandlerSet, hsend, panicked, exchangeFrame>>

\* The deferred cleanup, after the lock: close(responseChan)
ServeHTTPCloseChan(e) ==
    /\ ~panicked
    /\ exchange[e].pc = "close"
    /\ exchange' = [exchange EXCEPT ![e] =
                      [@ EXCEPT !.pc = "return", !.chanClosed = TRUE]]
    /\ UNCHANGED <<pendingExchanges, messageHandlerSet, hsend, panicked,
                   exchangeFrame>>

\* ServeHTTP returns: net/http cancels the request's context.
ServeHTTPReturn(e) ==
    /\ ~panicked
    /\ exchange[e].pc = "return"
    /\ exchange' = [exchange EXCEPT ![e] =
                      [@ EXCEPT !.pc = "done", !.ctxDone = TRUE]]
    /\ UNCHANGED <<pendingExchanges, messageHandlerSet, hsend, panicked,
                   exchangeFrame>>

\* Mutant: the channel of any pending exchange is taken.
PendingLookupAny(table, id) ==
    IF table = << >> THEN [found |-> FALSE, target |-> 0]
    ELSE [found |-> TRUE,
          target |-> table[CHOOSE i \in DOMAIN table :
                             \A j \in DOMAIN table : i <= j]]

\* pending, ok := t.pendingRequests[msg.ID]
PendingLookup(table, id) ==
    IF id \in DOMAIN table
    THEN [found |-> TRUE, target |-> table[id]]
    ELSE [found |-> FALSE, target |-> 0]

\* Send up to its select: the lookup under the read lock; with no
\* pending exchange for the id Send returns nil.
HTTPSendLookup(k, msg) ==
    /\ ~panicked
    /\ hsend[k].pc = "idle"
    /\ \A j \in SendTasks : j < k => hsend[j].pc # "idle"
    /\ LET pending == PendingLookup(pendingExchanges, msg.id) IN
       hsend' = [hsend EXCEPT ![k] =
                   [pc |-> IF pending.found THEN "select" ELSE "done",
                    msg |-> msg, found |-> pending.found,
                    target |-> pending.target, err |-> NilErr]]
    /\ UNCHANGED <<pendingExchanges, messageHandlerSet, exchange, panicked,
                   exchangeFrame>>

ErrRequestCancelled == <<"request context cancelled">>
ErrSendTimeout == <<"timeout sending response">>

\* The select of Send: the envelope goes on the channel (capacity 1) of
\* the exchange found; or that exchange's context is done; or five
\* seconds have passed.  A send on a closed channel panics.
HTTPSendSelect(k, choice) ==
    /\ ~panicked
    /\ hsend[k].pc = "select"
    /\ LET e == hsend[k].target IN
       CASE choice = "send" ->
              IF exchange[e].chanClosed
              THEN /\ panicked' = TRUE
                   /\ hsend' = [hsend EXCEPT ![k].pc = "panic"]
                   /\ UNCHANGED exchange
              ELSE /\ exchange[e].buf = << >>
                   /\ exchange' = [exchange EXCEPT ![e].buf =
                                     <<hsend[k].msg>>]
                   /\ hsend' = [hsend EXCEPT ![k].pc = "done"]
                   /\ UNCHANGED panicked
         [] choice = "done" ->
              /\ exchange[e].ctxDone
              /\ hsend' = [hsend EXCEPT ![k] =
                             [@ EXCEPT !.pc = "done",
                                       !.err = ErrRequestCancelled]]
              /\ UNCHANGED <<exchange, panicked>>
         [] choice = "timeout" ->
              /\ hsend' = [hsend EXCEPT ![k] =
                             [@ EXCEPT !.pc = "done",
                                       !.err = ErrSendTimeout]]
              /\ UNCHANGED <<exchange, panicked>>
    /\ UNCHANGED <<pendingExchanges, messageHandlerSet, exchangeFrame>>

\* The envelopes the engine passes to Send: responses and notifications.
HTTPSendMessages ==
    { ResultResponse(id, "h1") : id \in 1..MaxID } \cup
    { ListChangedMessage("tools") }

\* Clients POST to a request/reply server whose engine answers, late,
\* twice or not at all.
InitExchange == InitTransport /\ transport = "httpServer"

NextExchange ==
    \/ HTTPSetMessageHandler
    \/ \E e \in Exchanges, method \in {"POST", "GET"}, bodyOK \in BOOLEAN,
          id \in 0..MaxID : ServeHTTPBegin(e, method, bodyOK, id)
    \/ \E e \in Exchanges : HTTPClientCancel(e)
    \/ \E e \in Exchanges, choice \in {"response", "timeout", "cancel"} :
          ServeHTTPSelect(e, choice)
    \/ \E e \in Exchanges : ServeHTTPDelete(e)
    \/ \E e \in Exchanges : ServeHTTPCloseChan(e)
    \/ \E e \in Exchanges : ServeHTTPReturn(e)
    \/ \E k \in SendTasks, msg \in HTTPSendMessages : HTTPSendLookup(k, msg)
    \/ \E k \in SendTasks, choice \in {"send", "done", "timeout"} :
          HTTPSendSelect(k, choice)

SpecExchange == InitExchange /\ [][NextExchange]_vars

\* -------------------------------------- the request/reply client ----
\* What a client reads of an exchange: the status, and the envelope in
\* the body (NoMessage: no JSON in the body).
ExchangeAnswer(outcome, response) ==
    [status |-> ExchangeStatus(outcome),
     body |-> IF outcome = "response" THEN response ELSE NoMessage]

\* What the request/reply server answers a POST of msg with.
ServerAnswers(msg) ==
    IF msg.id = NilID
    THEN {ExchangeAnswer("notification", NoMessage),
          ExchangeAnswer("nohandler", NoMessage)}
    ELSE {ExchangeAnswer("response", ResultResponse(msg.id, "h1")),
          ExchangeAnswer("response",
                         ErrorResponse(msg.id, -32601, "Method not found")),
          ExchangeAnswer("timeout", NoMessage),
          ExchangeAnswer("nohandler", NoMessage)}

ErrHTTPDo == <<"failed to send request", "connection refused">>
ErrHTTPStatus == <<"server returned status">>
ErrHTTPDecode == <<"failed to decode response", "EOF">>

\* httpClientTransport.Send: closed is tested; the envelope is POSTed
\* (netFail: client.Do fails); a status other than 200 is an error; the
\* body is decoded as one envelope, which fails on a body without JSON;
\* the envelope is then given to the message handler, on this
\* goroutine, and Send returns nil.
httpClientTransportSend(isClosed, netFail, answer) ==
    IF isClosed THEN [err |-> ErrTransportClosed, handed |-> FALSE,
                      response |-> NoMessage]
    ELSE IF netFail THEN [err |-> ErrHTTPDo, handed |-> FALSE,
                          response |-> NoMessage]
    ELSE IF answer.status # StatusOK
    THEN [err |-> ErrHTTPStatus, handed |-> TRUE, response |-> NoMessage]
    ELSE IF answer.body = NoMessage
    THEN [err |-> ErrHTTPDecode, handed |-> TRUE, response |-> NoMessage]
    ELSE [err |-> NilErr, handed |-> TRUE, response |-> answer.body]

\* The engine's handleMessage called by Send with the envelope of the
\* body: a response goes to the channel stored under its id, if there
\* is one and it has room; a send on a closed channel panics.
DeliverInSend(chans, table, response) ==
    IF response = NoMessage \/ Route(response) # "response"
       \/ response.id \notin DOMAIN table
    THEN [chans |-> chans, panic |-> FALSE]
    ELSE LET c == table[response.id] IN
         IF chans[c].closed THEN [chans |-> chans, panic |-> TRUE]
         ELSE IF chans[c].buf = << >>
         THEN [chans |-> [chans EXCEPT ![c].buf = <<response>>],
               panic |-> FALSE]
         ELSE [chans |-> chans, panic |-> FALSE]

\* p.transport.Send(ctx, msg) of Request over the request/reply client,
\* and the early return on its error.
RequestSendHTTP(c, netFail, answer) ==
    /\ ~panicked
    /\ transportKind = "httpClient"
    /\ pc[c] = "send"
    /\ LET msg == RequestMessage(callID[c])
           out == httpClientTransportSend(closed, netFail, answer)
           got == DeliverInSend(responseChan, pendingRequests, out.response)
       IN
       /\ answer \in ServerAnswers(msg)
       /\ sent' = Append(sent, SendRecord(msg, out))
       /\ responseChan' = got.chans
       /\ panicked' = got.panic
       /\ IF out.err # NilErr
          THEN /\ ret' = [ret EXCEPT ![c] = SendErrorReturn(out.err)]
               /\ pc' = [pc EXCEPT ![c] = "cleanup"]
          ELSE /\ ret' = ret
               /\ pc' = [pc EXCEPT ![c] = "wait"]
    /\ UNCHANGED <<transportKind, closed, requestID, pendingRequests,
                   callID, ctxErr, cancelledOutstanding, closedOutstanding,
                   taskVars, handlerVars, handlerCalls, dispatched,
                   notifications>>
    /\ UNCHANGED mcpVars

\* Notification over the request/reply client.
NotificationHTTP(method, netFail, answer) ==
    /\ ~panicked
    /\ transportKind = "httpClient"
    /\ Len(notifications) < MaxNotifications
    /\ LET msg == NotificationMessage(method)
           out == httpClientTransportSend(closed, netFail, answer)
           got == DeliverInSend(responseChan, pendingRequests, out.response)
       IN
       /\ answer \in ServerAnswers(msg)
       /\ sent' = Append(sent, SendRecord(msg, out))
       /\ notifications' = Append(notifications, out.err)
       /\ responseChan' = got.chans
       /\ panicked' = got.panic
    /\ UNCHANGED <<transportKind, closed, requestID, pendingRequests,
                   callVars, taskVars, handlerVars, handlerCalls,
                   dispatched>>
    /\ UNCHANGED mcpVars

\* All the answers of the server.
AllServerAnswers ==
    UNION { ServerAnswers(RequestMessage(id)) : id \in 0..MaxID }

\* The engine of a client over the request/reply client transport, with
\* a server that answers each POST.
InitRoundTrip == Init /\ transportKind = "httpClient"

NextRoundTrip ==
    \/ \E c \in Callers : RequestBegin(c, TRUE)
    \/ \E c \in Callers, netFail \in BOOLEAN, answer \in AllServerAnswers :
          RequestSendHTTP(c, netFail, answer)
    \/ \E c \in Callers : RequestReceive(c)
    \/ \E c \in Callers : RequestCtxDone(c)
    \/ \E c \in Callers : RequestDeleteSlot(c)
    \/ \E c \in Callers : RequestCloseChan(c)
    \/ \E c \in Callers, err \in {ErrCanceled, ErrDeadlineExceeded} :
          CtxCancel(c, err)
    \/ \E m \in OutboundMethods, netFail \in BOOLEAN,
          answer \in AllServerAnswers : NotificationHTTP(m, netFail, answer)
    \/ Close

SpecRoundTrip == InitRoundTrip /\ [][NextRoundTrip]_vars

\* ------------------------------------------- push-stream sessions ----
MaxPosts == 2
MaxSends == 2

\* The id handleSSE generates for a stream.
SessionIDOf(s) == generateSessionID(s)

\* The streams whose session is in a table.
Registered(table) == { table[id] : id \in DOMAIN table }

ErrSessionBufferFull == <<"session buffer full">>
ErrSessionNotFound == <<"session not found">>

\* Mutant: Send never looks for a session id in its context.
TargetedNever(ctx) == FALSE

\* Send: sessionID, ok := ctx.Value("session_id").(string);
\* ok && sessionID != "".
Targeted(ctx) == ctx.ok /\ ctx.id # EmptySessionID

\* select { case session.messageChan <- data: default: }
HasRoom(chan) == Len(chan) < SessionBufferSize

\* Mutant: a broadcast gives up at the first session whose buffer is full.
BroadcastStopsAtFull(table, chans, msg) ==
    [s \in DOMAIN chans |->
       IF /\ s \in Registered(table)
          /\ \A r \in Registered(table) : r <= s => HasRoom(chans[r])
       THEN Append(chans[s], msg) ELSE chans[s]]

\* Send's fallback: every session of the table with room gets the
\* envelope, the others are skipped.
Broadcast(table, chans, msg) ==
    [s \in DOMAIN chans |->
       IF s \in Registered(table) /\ HasRoom(chans[s])
       THEN Append(chans[s], msg) ELSE chans[s]]

\* sseServerTransport.Send, under the read lock: the error it returns and
\* the buffers of the sessions' messageChans after it.
sseServerSend(table, chans, isClosed, ctx, msg) ==
    IF isClosed THEN [err |-> ErrTransportClosed, chans |-> chans]
    ELSE IF Targeted(ctx)
    THEN IF ctx.id \in DOMAIN table
         THEN IF HasRoom(chans[table[ctx.id]])
              THEN [err |-> NilErr,
                    chans |-> [chans EXCEPT ![table[ctx.id]] =
                                 Append(@, msg)]]
              ELSE [err |-> ErrSessionBufferFull, chans |-> chans]
         ELSE [err |-> ErrSessionNotFound, chans |-> chans]
    ELSE [err |-> NilErr, chans |-> Broadcast(table, chans, msg)]

\* What Send put on the messageChans, appended to the history.
Enqueue(before, after) ==
    [s \in Streams |->
       IF Len(after[s]) > Len(before[s])
       THEN Append(enqueued[s], after[s][Len(after[s])])
       ELSE enqueued[s]]

\* The engine's state that no step of the push-stream transport changes.
sseFrame == <<transportKind, requestID, pendingRequests, responseChan,
              callVars, taskVars, handlerVars, notifications, serverVars,
              lockVars, listVars, clientVars, lifeVars, wireVars>>

\* The streams whose handleSSE has written the endpoint event.
Opened == {s \in Streams : spc[s] \in {"open", "ending", "ended"}}

\* A GET on the stream endpoint reaches handleSSE: the server is
\* listening.  The handler then runs to its end, whatever Close does.
\* The clients connect one after the other.
handleSSEAccept(s) ==
    /\ ~panicked
    /\ ~closed
    /\ spc[s] = "idle"
    /\ \A r \in Streams : r < s => r \in Opened
    /\ spc' = [spc EXCEPT ![s] = "accepted"]
    /\ UNCHANGED <<sessions, sctxDone, messageChan, requestChan, chanClosed,
                   proc, written, enqueued, accepted, delivered, post,
                   posts, lastPost, sends, lastSend>>
    /\ UNCHANGED <<closed, panicked, sent, handlerCalls, dispatched,
                   sseFrame>>

\* handleSSE under the lock: t.sessions[sessionID] = session.
RegisterSession(table, isClosed, id, s) == (id :> s) @@ table

handleSSERegister(s) ==
    /\ ~panicked
    /\ spc[s] = "accepted"
    /\ sessions' = RegisterSession(sessions, closed, SessionIDOf(s), s)
    /\ spc' = [spc EXCEPT ![s] = "registered"]
    /\ UNCHANGED <<sctxDone, messageChan, requestChan, chanClosed, proc,
                   written, enqueued, accepted, delivered, post, posts,
                   lastPost, sends, lastSend>>
    /\ UNCHANGED <<closed, panicked, sent, handlerCalls, dispatched,
                   sseFrame>>

\* Mutant: handleSSE writes no event before its writer loop.
OpeningEventsNone(id, inTable, isClosed) == << >>

\* What handleSSE writes before its writer loop: event: endpoint, with
\* the message URL as data.
OpeningEvents(id, inTable, isClosed) ==
    <<EndpointEvent(id, inTable, isClosed)>>

\* handleSSE after the registration: without a flusher it returns; else it
\* writes the endpoint event and starts processSessionMessages.
handleSSEEndpoint(s, flusherOK) ==
    /\ ~panicked
    /\ spc[s] = "registered"
    /\ IF flusherOK
       THEN /\ written' =
                 [written EXCEPT ![s] =
                    @ \o OpeningEvents(SessionIDOf(s),
                                       SessionIDOf(s) \in DOMAIN sessions,
                                       closed)]
            /\ proc' = [proc EXCEPT ![s] = "running"]
            /\ spc' = [spc EXCEPT ![s] = "open"]
            /\ UNCHANGED sctxDone
       ELSE /\ sctxDone' = [sctxDone EXCEPT ![s] = TRUE]
            /\ spc' = [spc EXCEPT ![s] = "ending"]
            /\ UNCHANGED <<written, proc>>
    /\ UNCHANGED <<sessions, messageChan, requestChan, chanClosed, enqueued,
                   accepted, delivered, post, posts, lastPost, sends,
                   lastSend>>
    /\ UNCHANGED <<closed, panicked, sent, handlerCalls, dispatched,
                   sseFrame>>

\* Mutant: a receive takes the envelope that was sent last.
ReceiveLast(chan) ==
    [value |-> chan[Len(chan)], rest |-> SubSeq(chan, 1, Len(chan) - 1)]

\* A receive from a buffered channel takes the envelope sent first.
Receive(chan) == [value |-> Head(chan), rest |-> Tail(chan)]

\* The writer loop of handleSSE takes an envelope from messageChan and
\* writes it as a message event.
handleSSEWrite(s) ==
    /\ ~panicked
    /\ spc[s] = "open"
    /\ messageChan[s] # << >>
    /\ written' =
         [written EXCEPT ![s] =
            Append(@, MessageEvent(Receive(messageChan[s]).value))]
    /\ messageChan' = [messageChan EXCEPT ![s] = Receive(@).rest]
    /\ UNCHANGED <<sessions, spc, sctxDone, requestChan, chanClosed, proc,
                   enqueued, accepted, delivered, post, posts, lastPost,
                   sends, lastSend>>
    /\ UNCHANGED <<closed, panicked, sent, handlerCalls, dispatched,
                   sseFrame>>

\* The client goes away, or the GET is cancelled: r.Context() is done, and
\* session.ctx with it.
ClientDisconnect(s) ==
    /\ ~panicked
    /\ spc[s] \in {"registered", "open"}
    /\ ~sctxDone[s]
    /\ sctxDone' = [sctxDone EXCEPT ![s] = TRUE]
    /\ UNCHANGED <<sessions, spc, messageChan, requestChan, chanClosed,
                   proc, written, enqueued, accepted, delivered, post,
                   posts, lastPost, sends, lastSend>>
    /\ UNCHANGED <<closed, panicked, sent, handlerCalls, dispatched,
                   sseFrame>>

\* The writer loop sees t.ctx or session.ctx done and returns; the
\* deferred function starts with sessionCancel().
handleSSEReturn(s) ==
    /\ ~panicked
    /\ spc[s] = "open"
    /\ closed \/ sctxDone[s]
    /\ sctxDone' = [sctxDone EXCEPT ![s] = TRUE]
    /\ spc' = [spc EXCEPT ![s] = "ending"]
    /\ UNCHANGED <<sessions, messageChan, requestChan, chanClosed, proc,
                   written, enqueued, accepted, delivered, post, posts,
                   lastPost, sends, lastSend>>
    /\ UNCHANGED <<closed, panicked, sent, handlerCalls, dispatched,
                   sseFrame>>

\* delete(t.sessions, sessionID)
DeleteSession(table, id) ==
    [k \in DOMAIN table \ {id} |-> table[k]]

\* The deferred function of handleSSE under the lock: the session leaves
\* the table and its channels are closed.
handleSSETeardown(s) ==
    /\ ~panicked
    /\ spc[s] = "ending"
    /\ sessions' = DeleteSession(sessions, SessionIDOf(s))
    /\ chanClosed' = [chanClosed EXCEPT ![s] = TRUE]
    /\ spc' = [spc EXCEPT ![s] = "ended"]
    /\ UNCHANGED <<sctxDone, messageChan, requestChan, proc, written,
                   enqueued, accepted, delivered, post, posts, lastPost,
                   sends, lastSend>>
    /\ UNCHANGED <<closed, panicked, sent, handlerCalls, dispatched,
                   sseFrame>>

\* processSessionMessages takes an envelope from requestChan and calls the
\* messageHandler, the engine's handleMessage, with the session id in the
\* context: a request is answered through Send with that context.
processSessionMessages(s, hret) ==
    /\ ~panicked
    /\ proc[s] = "running"
    /\ requestChan[s] # << >>
    /\ LET item == Receive(requestChan[s]).value
           msg == item.msg
           response == RequestResponse(msg, requestHandlers, hret)
           out == sseServerSend(sessions, messageChan, closed,
                                SessionCtx(SessionIDOf(s)), response)
       IN /\ requestChan' = [requestChan EXCEPT ![s] = Receive(@).rest]
          /\ delivered' = [delivered EXCEPT ![s] = Append(@, item)]
          /\ dispatched' = dispatched + 1
          /\ IF Route(msg) = "request"
             THEN /\ messageChan' = out.chans
                  /\ enqueued' = Enqueue(messageChan, out.chans)
                  /\ sent' = Append(sent,
                                    [msg |-> response, err |-> out.err,
                                     handed |-> out.err = NilErr])
                  /\ handlerCalls' =
                       IF RequestHandlerInvoked(msg, requestHandlers)
                       THEN [handlerCalls EXCEPT !.request = @ + 1]
                       ELSE handlerCalls
             ELSE /\ handlerCalls' =
                       IF NotificationHandlerInvoked(msg,
                                                     notificationHandlers)
                       THEN [handlerCalls EXCEPT !.notification = @ + 1]
                       ELSE handlerCalls
                  /\ UNCHANGED <<messageChan, enqueued, sent>>
    /\ UNCHANGED <<sessions, spc, sctxDone, chanClosed, proc, written,
                   accepted, post, posts, lastPost, sends, lastSend>>
    /\ UNCHANGED <<closed, panicked, sseFrame>>

\* processSessionMessages receives from the closed, empty requestChan: the
\* messageHandler is called with a nil envelope and the engine
\* dereferences it.
processSessionMessagesNil(s) ==
    /\ ~panicked
    /\ proc[s] = "running"
    /\ chanClosed[s]
    /\ requestChan[s] = << >>
    /\ panicked' = TRUE
    /\ UNCHANGED sseVars
    /\ UNCHANGED <<closed, sent, handlerCalls, dispatched, sseFrame>>

\* processSessionMessages sees session.ctx done and returns.
processSessionMessagesReturn(s) ==
    /\ ~panicked
    /\ proc[s] = "running"
    /\ sctxDone[s]
    /\ proc' = [proc EXCEPT ![s] = "returned"]
    /\ UNCHANGED <<sessions, spc, sctxDone, messageChan, requestChan,
                   chanClosed, written, enqueued, accepted, delivered, post,
                   posts, lastPost, sends, lastSend>>
    /\ UNCHANGED <<closed, panicked, sent, handlerCalls, dispatched,
                   sseFrame>>

\* Mutant: a POST that names no session of the table is accepted.
LookupStatusAccepts(sid, table, bodyOK) ==
    IF sid = EmptySessionID THEN 400
    ELSE IF sid \notin DOMAIN table THEN 202
    ELSE IF ~bodyOK THEN 400
    ELSE 0

\* handleMessage up to its select: the status it answers with, 0 when it
\* goes on to the select.
LookupStatus(sid, table, bodyOK) ==
    IF sid = EmptySessionID THEN 400
    ELSE IF sid \notin DOMAIN table THEN 404
    ELSE IF ~bodyOK THEN 400
    ELSE 0

\* The envelope of the n-th POST: a request with an id of its own, or a
\* notification.
PostEnvelope(n, isRequest) ==
    IF isRequest
    THEN BaseJSONRPCMessage(n, "ma", "{}", NilRaw, NilErr)
    ELSE BaseJSONRPCMessage(NilID, "mb", "{}", NilRaw, NilErr)

\* A POST on the message endpoint, up to the select of handleMessage.
PostLookup(sid, bodyOK, isRequest) ==
    /\ ~panicked
    /\ post.pc = "idle"
    /\ posts < MaxPosts
    /\ posts' = posts + 1
    /\ LET status == LookupStatus(sid, sessions, bodyOK)
           item == Posted(posts + 1, PostEnvelope(posts + 1, isRequest))
           found == sid \in DOMAIN sessions
           stream == IF found THEN sessions[sid] ELSE 0
           named == IF \E s \in Streams : sid = SessionIDOf(s)
                    THEN spc[CHOOSE s \in Streams : sid = SessionIDOf(s)]
                    ELSE "never"
       IN /\ lastPost' = [sid |-> sid, status |-> status, found |-> found,
                          stream |-> stream, named |-> named,
                          bodyOK |-> bodyOK, ctxDone |-> FALSE,
                          chanClosed |-> FALSE, item |-> item]
          /\ post' = IF status = 0
                     THEN [pc |-> "select", stream |-> stream, item |-> item]
                     ELSE post
    /\ UNCHANGED <<sessions, spc, sctxDone, messageChan, requestChan,
                   chanClosed, proc, written, enqueued, accepted, delivered,
                   sends, lastSend>>
    /\ UNCHANGED <<closed, panicked, sent, handlerCalls, dispatched,
                   sseFrame>>

\* The select of handleMessage: the envelope goes on the requestChan and
\* the answer is 202, or session.ctx is done and the answer is 410.  A
\* send on the closed requestChan panics: net/http recovers and the POST
\* gets no answer (status -1).
PostSelect(choice) ==
    /\ ~panicked
    /\ post.pc = "select"
    /\ LET s == post.stream IN
       CASE choice = "send" ->
              /\ ~chanClosed[s]
              /\ Len(requestChan[s]) < SessionBufferSize
              /\ requestChan' = [requestChan EXCEPT ![s] =
                                   Append(@, post.item)]
              /\ accepted' = [accepted EXCEPT ![s] = Append(@, post.item)]
              /\ lastPost' = [lastPost EXCEPT !.status = 202,
                                              !.ctxDone = sctxDone[s],
                                              !.chanClosed = chanClosed[s]]
         [] choice = "done" ->
              /\ sctxDone[s]
              /\ lastPost' = [lastPost EXCEPT !.status = 410,
                                              !.ctxDone = sctxDone[s],
                                              !.chanClosed = chanClosed[s]]
              /\ UNCHANGED <<requestChan, accepted>>
         [] choice = "panic" ->
              /\ chanClosed[s]
              /\ lastPost' = [lastPost EXCEPT !.status = -1,
                                              !.ctxDone = sctxDone[s],
                                              !.chanClosed = chanClosed[s]]
              /\ UNCHANGED <<requestChan, accepted>>
    /\ post' = NoPost
    /\ UNCHANGED <<sessions, spc, sctxDone, messageChan, chanClosed, proc,
                   written, enqueued, delivered, posts, sends, lastSend>>
    /\ UNCHANGED <<closed, panicked, sent, handlerCalls, dispatched,
                   sseFrame>>

\* The application calls Send: with no session id in the context (a
\* notification), or with one.
Send(ctx, msg) ==
    /\ ~panicked
    /\ sends < MaxSends
    /\ sends' = sends + 1
    /\ LET out == sseServerSend(sessions, messageChan, closed, ctx, msg)
       IN /\ messageChan' = out.chans
          /\ enqueued' = Enqueue(messageChan, out.chans)
          /\ lastSend' = [called |-> TRUE, ctx |-> ctx, msg |-> msg,
                          err |-> out.err, closedBefore |-> closed,
                          tableBefore |-> sessions,
                          chansBefore |-> messageChan,
                          openBefore |-> {s \in Streams : spc[s] = "open"},
                          enqueuedTo |->
                            {s \in Streams :
                               Len(out.chans[s]) > Len(messageChan[s])}]
    /\ UNCHANGED <<sessions, spc, sctxDone, requestChan, chanClosed, proc,
                   written, accepted, delivered, post, posts, lastPost>>
    /\ UNCHANGED <<closed, panicked, sent, handlerCalls, dispatched,
                   sseFrame>>

\* sseServerTransport.Close, under the lock: nothing when closed; else
\* closed is set, t.ctx and every session of the table cancelled, and the
\* table replaced by an empty one.
SSEClose ==
    /\ ~panicked
    /\ ~closed
    /\ closed' = TRUE
    /\ sctxDone' = [s \in Streams |->
                      sctxDone[s] \/ s \in Registered(sessions)]
    /\ sessions' = << >>
    /\ UNCHANGED <<spc, messageChan, requestChan, chanClosed, proc, written,
                   enqueued, accepted, delivered, post, posts, lastPost,
                   sends, lastSend>>
    /\ UNCHANGED <<panicked, sent, handlerCalls, dispatched, sseFrame>>

\* A session id that handleSSE never generates.
NeverGenerated == generateSessionID(0)

\* What the application sends of its own: a list-changed notification
\* with no session id in the context; a response with a context that
\* names a session, or holds the empty string.
SentCalls ==
    {<<NoSessionCtx, ListChangedMessage("tools")>>}
      \cup { <<SessionCtx(id), ResultResponse(MaxPosts + 1, "h1")>> :
               id \in {SessionIDOf(1), NeverGenerated, EmptySessionID} }

\* The POSTs: the session id of the query and the body, which is a
\* request, a notification or no JSON.
PostInputs ==
    { <<SessionIDOf(s), "request">> : s \in Streams }
      \cup {<<SessionIDOf(1), "notification">>,
            <<SessionIDOf(1), "malformed">>,
            <<NeverGenerated, "request">>,
            <<EmptySessionID, "request">>}

\* A started push-stream server whose engine has one request handler.
InitSSE ==
    /\ InitEngineState
    /\ transportKind = "sse"
    /\ requestHandlers = {"ma"}
    /\ notificationHandlers = {}
    /\ InitServer
    /\ paginationLimit = DefaultPaginationLimit
    /\ InitWalk
    /\ InitClient
    /\ InitLifecycle("sseServer")
    /\ InitSessions
    /\ InitHTTP

\* The steps of the goroutines of the event streams.
StreamSteps ==
    \/ \E s \in Streams : handleSSEAccept(s)
    \/ \E s \in Streams : handleSSERegister(s)
    \/ \E s \in Streams, flusherOK \in BOOLEAN :
          handleSSEEndpoint(s, flusherOK)
    \/ \E s \in Streams : handleSSEWrite(s)
    \/ \E s \in Streams : ClientDisconnect(s)
    \/ \E s \in Streams : handleSSEReturn(s)
    \/ \E s \in Streams : handleSSETeardown(s)
    \/ \E s \in Streams : processSessionMessagesNil(s)
    \/ \E s \in Streams : processSessionMessagesReturn(s)

\* Clients open and leave event streams while the application sends and
\* closes.
NextSSESend ==
    \/ StreamSteps
    \/ \E call \in SentCalls : Send(call[1], call[2])
    \/ SSEClose

SpecSSESend == InitSSE /\ [][NextSSESend]_vars

\* Clients open and leave event streams and POST envelopes, which the
\* engine serves, while the application closes.
NextSSEPost ==
    \/ StreamSteps
    \/ \E s \in Streams : processSessionMessages(s, "ok")
    \/ \E in \in PostInputs :
          PostLookup(in[1], in[2] # "malformed", in[2] = "request")
    \/ \E choice \in {"send", "done", "panic"} : PostSelect(choice)
    \/ SSEClose

SpecSSEPost == InitSSE /\ [][NextSSEPost]_vars

\* n copies of an envelope.
Copies(n, msg) == [i \in 1..n |-> msg]

\* How many envelopes a stalled client may have left unread.
Backlogs ==
    {SessionBufferSize - 2, SessionBufferSize - 1, SessionBufferSize}

\* A push-stream server with every stream open, after list-changed
\* notifications that the clients have not read yet.
InitSSEFull ==
    /\ InitEngineState
    /\ transportKind = "sse"
    /\ requestHandlers = {"ma"}
    /\ notificationHandlers = {}
    /\ InitServer
    /\ paginationLimit = DefaultPaginationLimit
    /\ InitWalk
    /\ InitClient
    /\ InitLifecycle("sseServer")
    /\ InitHTTP
    /\ sessions = [id \in { SessionIDOf(s) : s \in Streams } |->
                     CHOOSE s \in Streams : id = SessionIDOf(s)]
    /\ spc = [s \in Streams |-> "open"]
    /\ sctxDone = [s \in Streams |-> FALSE]
    /\ messageChan \in
         [Streams -> { Copies(n, ListChangedMessage("tools")) :
                         n \in Backlogs }]
    /\ enqueued = messageChan
    /\ requestChan = [s \in Streams |-> << >>]
    /\ chanClosed = [s \in Streams |-> FALSE]
    /\ proc = [s \in Streams |-> "running"]
    /\ written = [s \in Streams |->
                    OpeningEvents(SessionIDOf(s), TRUE, FALSE)]
    /\ accepted = [s \in Streams |-> << >>]
    /\ delivered = [s \in Streams |-> << >>]
    /\ post = NoPost
    /\ posts = 0
    /\ lastPost = NoLastPost
    /\ sends = 0
    /\ lastSend = NoLastSend

\* The application sends and closes while the clients read nothing.
NextSSEFull ==
    \/ \E call \in SentCalls : Send(call[1], call[2])
    \/ SSEClose

SpecSSEFull == InitSSEFull /\ [][NextSSEFull]_vars

\* ============================================================ claims ====
\* The select of Request has been passed: its return value is decided.
PastSelect(c) == pc[c] \in {"cleanup", "close", "done"}

Returned(c) == pc[c] = "done"

IsResultReturn(r) == r.err = NilErr

IsRPCErrorReturn(r) ==
    r.result = NilRaw /\ Len(r.err) = 3 /\ r.err[1] = "RPC error"

IsSendErrorReturn(r) ==
    r.result = NilRaw /\ Len(r.err) >= 2 /\ r.err[1] = "failed to send request"

IsCtxErrorReturn(c) ==
    ctxErr[c] # NilErr /\ ret[c] = [result |-> NilRaw, err |-> ctxErr[c]]

\* The return value was computed from a response taken from the channel.
IsResponseReturn(r) == IsResultReturn(r) \/ IsRPCErrorReturn(r)

\* C1: concurrent Request calls are allocated pairwise distinct ids, and a
\* response with id i is handed only to the channel of the call that was
\* allocated i, never to another call's.
C1_DistinctIdsRouted ==
    /\ \A c, d \in Callers :
         (c # d /\ callID[c] # NilID /\ callID[d] # NilID)
            => callID[c] # callID[d]
    /\ \A c \in Callers :
         responseChan[c].buf # << >>
            => Head(responseChan[c].buf).id = callID[c]
    /\ \A t \in Tasks :
         tpc[t] = "deliver" => tmsg[t].id = callID[tchan[t]]

\* Two concurrent calls are waiting and each has its own response.
C1_Witness ==
    \E c, d \in Callers :
        /\ c # d
        /\ pc[c] = "wait" /\ pc[d] = "wait"
        /\ responseChan[c].buf # << >> /\ responseChan[d].buf # << >>

C2_Completed ==
    \A c \in Callers :
        Returned(c) =>
            /\ callID[c] \notin DOMAIN pendingRequests
            /\ ret[c].err # ErrMarshalParams =>
                  \/ IsResultReturn(ret[c])
                  \/ IsRPCErrorReturn(ret[c])
                  \/ IsSendErrorReturn(ret[c])
                  \/ IsCtxErrorReturn(c)

C2_Once ==
    \A c \in Callers :
        PastSelect(c) => (PastSelect(c)' /\ ret'[c] = ret[c])

IsTransportClosedError(err) ==
    \E i \in 1..Len(err) : err[i] = "transport is closed"

\* C3: when Close is called while a Request is outstanding, that Request
\* completes with a transport-closed error (its context was not needed for
\* that), and the pending-requests table is emptied by Close.
C3_CloseDrainsPending ==
    /\ \A c \in Callers :
         (closedOutstanding[c] /\ Returned(c))
            => IsTransportClosedError(ret[c].err)
    /\ closed => pendingRequests = << >>

\* C4: once Close has returned, every send made for a later Request or
\* Notification returns an error and hands no envelope to the peer, on
\* every transport.
C4_NoSendAfterClose ==
    [][closed =>
         /\ Len(sent') > Len(sent) =>
               /\ sent'[Len(sent')].err # NilErr
               /\ ~sent'[Len(sent')].handed
         /\ Len(notifications') > Len(notifications) =>
               notifications'[Len(notifications')] # NilErr
         /\ \A c \in Callers :
               (pc[c] = "send" /\ pc'[c] # "send") =>
                   (pc'[c] = "cleanup" /\ ret'[c].err # NilErr)]_vars

C7_ResponseMapped ==
    [][\A c \in Callers :
         (/\ pc[c] = "wait" /\ pc'[c] = "cleanup"
          /\ responseChan[c].buf # << >> /\ responseChan'[c].buf = << >>) =>
            LET response == Head(responseChan[c].buf) IN
            /\ response.error # NilErr =>
                 ret'[c] = [result |-> NilRaw,
                            err |-> <<"RPC error", response.error[1],
                                      response.error[2]>>]
            /\ response.error = NilErr =>
                 ret'[c] = [result |-> response.result, err |-> NilErr]]_vars

\* One call returned the RPC error of its response, another the result
\* of its own.
C7_Witness ==
    \E c, d \in Callers :
        /\ Returned(c) /\ Returned(d)
        /\ ret[c] = [result |-> NilRaw,
                     err |-> <<"RPC error", -32600, "Invalid Request">>]
        /\ ret[d] = [result |-> "r1", err |-> NilErr]

\* An inbound envelope with a method and an id, and neither result nor
\* error: a request.
IsRequest(msg) ==
    /\ msg.method # "" /\ msg.id # NilID
    /\ msg.result = NilRaw /\ msg.error = NilErr

\* An inbound envelope with a method and no id, and neither result nor
\* error: a notification.
IsNotification(msg) ==
    /\ msg.method # "" /\ msg.id = NilID
    /\ msg.result = NilRaw /\ msg.error = NilErr

LatestRegistered(kind) ==
    {n \in DOMAIN latest[kind] : latest[kind][n].op = "register"}

NotifyStep == wpc = "notify" /\ wpc' = "idle"

ListChangedName(kind) ==
    CASE kind = "tools" -> "notifications/tools/list_changed"
      [] kind = "prompts" -> "notifications/prompts/list_changed"
      [] kind = "resources" -> "notifications/resources/list_changed"

C14_DeregisterAbsent ==
    [][\A kind \in Kinds, key \in Keys :
         (key \notin DOMAIN registries[kind] /\ Deregister(kind, key)) =>
            /\ lastResult'.call = "Deregister"
            /\ lastResult'.err # NilErr
            /\ registries' = registries
            /\ sent' = sent
            /\ wpc' = "idle"]_vars

\* On a serving server that holds a prompt and has notified its peer, the
\* deregistration of an absent tool was refused.
C14_Witness ==
    /\ started
    /\ lastResult = [call |-> "Deregister", err |-> <<"tool not found", 1>>]
    /\ registries.tools = << >>
    /\ registries.prompts # << >>
    /\ Len(sent) = 1
    /\ wpc = "idle"

\* C19: the server lifecycle is idle -> serving -> closed with closed
\* terminal: once Close has been called the server's transport never
\* takes inbound envelopes again, whatever Serve is called afterwards, and
\* no list-changed notification is handed to a peer.
C19_ClosedTerminal ==
    [][closed =>
         /\ ~listening'
         /\ Len(sent') > Len(sent) => ~sent'[Len(sent')].handed]_vars

\* A handler goroutine is reading a registry map.
Reading(t) == rpc[t] = "reading"

\* C15: every read of the tool, prompt and resource maps (listing, Has*,
\* and the lookups of tools/call, prompts/get and resources/read) is made
\* while the reader lock is held, so that no read overlaps a write of the
\* same map.
C15_ReadsUnderLock ==
    \A t \in Tasks :
        Reading(t) =>
            /\ t \in muReaders
            /\ ~(muWriter /\ wcrit.kind = rop[t].kind)

RECURSIVE Flatten(_)
\* The batches of a walk, one after the other.
Flatten(batches) ==
    IF batches = << >> THEN << >>
    ELSE Head(batches) \o Flatten(Tail(batches))

\* ceil(k / n), and one batch (an empty one) for an empty registry.
ExpectedBatches(k, n) == IF k = 0 THEN 1 ELSE (k + n - 1) \div n

\* C16: for a registry of K items that does not change and a pagination
\* limit N > 0, following next_cursor until it is absent yields exactly
\* ceil(K/N) batches, each but the last of N items, only the last without
\* a next_cursor, and their concatenation is the sorted listing of the
\* registry, nothing twice and nothing left out.
C16_WalkCoversRegistry ==
    (ops = 0 /\ paginationLimit > 0) =>
        LET all == SortKeys(DOMAIN registries[walkKind])
            expected == ExpectedBatches(Len(all), paginationLimit) IN
        /\ Len(walk) <= expected
        /\ walkState = "more" => Len(walk) < expected
        /\ walkState = "done" =>
              /\ Len(walk) = expected
              /\ Flatten(walk) = all
              /\ \A i \in 1..(Len(walk) - 1) :
                    Len(walk[i]) = paginationLimit

\* C17: a list call that passes a cursor encoding key k returns only items
\* whose key is strictly greater than k, whatever the registry holds at
\* the time of the call.
C17_OnlyAfterCursor ==
    (/\ lastList.called
     /\ lastList.cursor.present
     /\ lastList.cursor.text # << >>
     /\ ~Base64Decode(lastList.cursor.text).err) =>
        \A i \in 1..Len(lastList.keys) :
            lastList.keys[i] > Base64Decode(lastList.cursor.text).key

\* A tools/call request named a tool that is not registered, or the
\* tool's handler failed.
ToolLevelFailure ==
    /\ lastCall.called
    /\ lastCall.method = "tools/call"
    /\ lastCall.params = "named"
    /\ \/ ~lastCall.known
       \/ lastCall.hret = "err"

\* C18: a tool-level failure of tools/call (unknown tool, handler error)
\* is answered with a result that has isError true and a text content
\* item, never with a JSON-RPC error; an unknown prompt on prompts/get and
\* an unknown URI on resources/read are answered with a JSON-RPC error of
\* code -32603 and no result.
C18_FailureShapes ==
    /\ (lastCall.called /\ lastCall.method = "tools/call" /\
        lastCall.params = "named" /\
        (~lastCall.known \/ lastCall.hret = "err")) =>
          /\ lastCall.returned.err = NilErr
          /\ lastCall.returned.result.isError
          /\ \E i \in 1..Len(lastCall.returned.result.content) :
                lastCall.returned.result.content[i].type = "text"
          /\ lastCall.response.error = NilErr
          /\ lastCall.response.result =
                JSONMarshal(lastCall.returned.result)
          /\ lastCall.response.result = "{content,isError:true}"
    /\ (lastCall.called /\
        lastCall.method \in {"prompts/get", "resources/read"} /\
        lastCall.params = "named" /\ ~lastCall.known) =>
          /\ lastCall.response.error # NilErr
          /\ lastCall.response.error[1] = -32603
          /\ lastCall.response.result = NilRaw

\* A call of an unknown tool was answered with an isError result, and the
\* answer was handed to the transport.
C18_Witness ==
    /\ ToolLevelFailure
    /\ ~lastCall.known
    /\ sent # << >>
    /\ sent[Len(sent)].msg = lastCall.response
    /\ sent[Len(sent)].msg.result = "{content,isError:true}"

\* A call of a client method returns in this step.
ClientReturns(call) ==
    clientCalls' = clientCalls + 1 /\ clientResult'.call = call

SendsNothing == sent' = sent /\ requestID' = requestID

C20_Gated ==
    /\ \A method \in ClientMethods :
          (ClientReturns(method) /\ ~initialized) =>
              /\ clientResult'.err = ErrNotInitialized
              /\ SendsNothing
              /\ ~initialized'
    /\ (ClientReturns("Initialize") /\ ~initialized /\
        clientResult'.err # NilErr) => ~initialized'
    /\ (ClientReturns("Initialize") /\ initialized) =>
          /\ clientResult'.err = ErrAlreadyInitialized
          /\ SendsNothing
          /\ initialized'
    /\ (~initialized /\ initialized') =>
          (ClientReturns("Initialize") /\ clientResult'.err = NilErr)

\* C20: every client method other than Initialize (ListTools, CallTool,
\* ListPrompts, GetPrompt, ListResources, ReadResource, Ping) that is
\* called before an Initialize has succeeded fails with "not initialized"
\* and sends no envelope; a failed Initialize leaves the client
\* uninitialized; a second Initialize after a success fails without
\* sending anything.
C20_InitializeGate == [][C20_Gated]_vars

\* An Initialize failed after its request was sent, and the method called
\* next was refused without sending a second envelope.
C20_Witness ==
    /\ clientCalls = 2
    /\ clientResult.call \in ClientMethods
    /\ clientResult.err = ErrNotInitialized
    /\ Len(sent) = 1
    /\ sent[1].msg.method = "initialize"
    /\ ~initialized

\* The parameters of a handler that are not the context.
RECURSIVE NonContext(_)
NonContext(in) ==
    IF in = << >> THEN << >>
    ELSE (IF Head(in) = ContextType THEN << >> ELSE <<Head(in)>>)
         \o NonContext(Tail(in))

\* func(args S) or func(ctx context.Context, args S), S a struct.
DocumentedShape(handler) ==
    /\ handler.kind = "func"
    /\ \/ Len(handler.in) = 1
       \/ Len(handler.in) = 2 /\ handler.in[1] = ContextType
    /\ handler.in[Len(handler.in)].kind = "struct"

\* A function whose first argument after the context is no struct (and no
\* pointer to one).
NonStructArgument(handler) ==
    /\ handler.kind = "func"
    /\ NonContext(handler.in) # << >>
    /\ NonContext(handler.in)[1].kind \notin {"struct", "ptr"}

C21_Step ==
    \A key \in ServedKeys, handler \in SchemaHandlers :
        Register("tools", key, "d1", handler) =>
            /\ DocumentedShape(handler) =>
                  /\ lastResult'.err = NilErr
                  /\ key \in DOMAIN registries'.tools
                  /\ registries'.tools[key].schema =
                        generateSchemaFromType(
                            handler.in[Len(handler.in)]).schema
            /\ NonStructArgument(handler) =>
                  /\ lastResult'.err # NilErr
                  /\ registries' = registries

\* C21: RegisterTool accepts both documented handler shapes, func(args S)
\* and func(ctx context.Context, args S) with S a struct: it returns no
\* error and the stored input schema is derived from S, the context
\* parameter being skipped; a handler whose first non-context argument is
\* not a struct is rejected and the registry is left unchanged.
C21_HandlerShapes == [][C21_Step]_vars

\* The field carries the word required in its jsonschema tag.
TaggedRequired(field) ==
    \E i \in 1..Len(field.jsonSchemaTag) :
        field.jsonSchemaTag[i] = TagRequired

InSeq(x, seq) == \E i \in 1..Len(seq) : seq[i] = x

\* C22: in a generated input schema every exported field of the argument
\* struct that is not tagged json:"-" is a property under its JSON name,
\* and a property is listed in "required" exactly when its field is not a
\* pointer or is tagged jsonschema required; a pointer field without the
\* tag is a property that is not required.
C22_PropertiesAndRequired ==
    \A key \in DOMAIN registries.tools :
        LET entry == registries.tools[key]
            in == entry.handler.in IN
        (Len(in) = 1 /\ in[1].kind = "struct") =>
            \A i \in 1..Len(in[1].fields) :
                LET field == in[1].fields[i] IN
                (field.exported /\ field.jsonTag # <<"-">>) =>
                    /\ FieldName(field) \in DOMAIN entry.schema.properties
                    /\ InSeq(FieldName(field), entry.schema.required) <=>
                          (field.type.kind # "ptr" \/ TaggedRequired(field))

\* C23: Close is idempotent on every transport: over any number of Close
\* calls the close handler is invoked at most once, and every Close after
\* the first returns nil and invokes nothing.
C23_CloseOnce ==
    /\ closeHandlerCalls <= 1
    /\ (lastLife.call = "Close" /\ lastLife.closeCallsBefore >= 1) =>
          /\ lastLife.err = NilErr
          /\ closeHandlerCalls = lastLife.handlerCallsBefore

\* C24: once a Start has succeeded on a transport that was never closed,
\* a further Start returns nil and launches nothing; a Start on a closed
\* transport returns an error.
C24_StartOnce ==
    lastLife.call = "Start" =>
      /\ (lastLife.startsOKBefore >= 1 /\ lastLife.closeCallsBefore = 0) =>
            /\ lastLife.err = NilErr
            /\ launched = lastLife.launchedBefore
      /\ lastLife.closeCallsBefore >= 1 => lastLife.err # NilErr

\* The characters of a hex string.
HexCharSet == { HexChars[i] : i \in 1..Len(HexChars) }

Items(log) == { log[i] : i \in 1..Len(log) }

C27_TableTracksStreams ==
    /\ \A id \in DOMAIN sessions :
          /\ id = SessionIDOf(sessions[id])
          /\ spc[sessions[id]] \in {"registered", "open", "ending"}
    /\ \A s \in Streams :
          spc[s] = "ended" => SessionIDOf(s) \notin DOMAIN sessions
    /\ (lastSend.called /\ Targeted(lastSend.ctx)
          /\ lastSend.ctx.id \notin DOMAIN lastSend.tableBefore) =>
          /\ lastSend.err # NilErr
          /\ lastSend.enqueuedTo = {}
    /\ closed => sessions = << >>

\* The ids of the requests of a log of POSTed envelopes.
RequestIDs(log) ==
    { log[i].msg.id :
        i \in { j \in 1..Len(log) : Route(log[j].msg) = "request" } }

\* C28: every response put on the messageChan of a session answers a
\* request that was POSTed on, and delivered from, that session; it is on
\* the messageChan of no other session.
C28_ResponseToItsSession ==
    \A s \in Streams :
      \A i \in 1..Len(enqueued[s]) :
        Route(enqueued[s][i]) = "response" =>
          /\ enqueued[s][i].id \in RequestIDs(delivered[s])
          /\ \A r \in Streams \ {s} :
                \A j \in 1..Len(enqueued[r]) :
                   enqueued[r][j].id # enqueued[s][i].id

\* Two sessions are open, each has had a request of its own delivered,
\* and each has got one response.
C28_Witness ==
    /\ DOMAIN sessions = { SessionIDOf(s) : s \in Streams }
    /\ \A s \in Streams :
          /\ Len(delivered[s]) = 1
          /\ Len(enqueued[s]) = 1
          /\ enqueued[s][1].id = delivered[s][1].msg.id
          /\ enqueued[s][1].result # NilRaw

\* The sessions of the table whose messageChan was full before the last
\* Send.
FullBefore ==
    { s \in Registered(lastSend.tableBefore) :
        Len(lastSend.chansBefore[s]) = SessionBufferSize }

\* C29: a Send with no session id returns nil and enqueues to exactly the
\* sessions of the table whose messageChan has room, skipping the full
\* ones; a Send targeted at a session whose messageChan holds 10
\* envelopes returns the session-buffer-full error and enqueues nothing;
\* no messageChan ever holds more than 10 envelopes.
C29_FullQueues ==
    /\ SessionBufferSize = 10
    /\ \A s \in Streams : Len(messageChan[s]) <= SessionBufferSize
    /\ (lastSend.called /\ ~lastSend.closedBefore) =>
         /\ ~Targeted(lastSend.ctx) =>
              /\ lastSend.err = NilErr
              /\ lastSend.enqueuedTo =
                   Registered(lastSend.tableBefore) \ FullBefore
         /\ (Targeted(lastSend.ctx)
               /\ lastSend.ctx.id \in DOMAIN lastSend.tableBefore
               /\ lastSend.tableBefore[lastSend.ctx.id] \in FullBefore) =>
              /\ lastSend.err = ErrSessionBufferFull
              /\ lastSend.enqueuedTo = {}

\* A broadcast found one session full and another with room: it returned
\* nil and reached only the second.
C29_Witness ==
    /\ lastSend.called
    /\ ~Targeted(lastSend.ctx)
    /\ lastSend.err = NilErr
    /\ FullBefore # {}
    /\ lastSend.enqueuedTo # {}
    /\ lastSend.enqueuedTo = Registered(lastSend.tableBefore) \ FullBefore

\* The envelopes of the message events of a stream, in the order written.
WrittenMessages(s) ==
    [i \in 1..(Len(written[s]) - 1) |-> written[s][i + 1].msg]

\* C30: within a session, the envelopes written to the stream are, in
\* order, the first of those Send put on its messageChan, the rest being
\* still in the buffer; the envelopes given to the message handler are,
\* in order, the first of those accepted POSTs put on its requestChan,
\* the rest being still in the buffer.
C30_SessionOrder ==
    \A s \in Streams :
      /\ enqueued[s] = WrittenMessages(s) \o messageChan[s]
      /\ accepted[s] = delivered[s] \o requestChan[s]

\* Two requests were accepted on one session, one after the other; both
\* were delivered and both responses written, in that order.
C30_Witness ==
    \E s \in Streams :
      /\ Len(accepted[s]) = 2
      /\ delivered[s] = accepted[s]
      /\ delivered[s][1].post < delivered[s][2].post
      /\ Len(written[s]) = 3
      /\ written[s][2].msg.id = delivered[s][1].msg.id
      /\ written[s][3].msg.id = delivered[s][2].msg.id
      /\ written[s][2].msg.id # written[s][3].msg.id

\* C31: with several middleware added, the one added last is the
\* outermost wrapper: for every request it runs first, before every
\* middleware added earlier and before the MCP handler, and it sees the
\* response last.
C31_LastAddedOutermost ==
    (Len(middleware) >= 2 /\ served # NoServed
       /\ serverHandler = ChainMiddleware(middleware)) =>
        /\ Head(served.entered) = middleware[Len(middleware)]
        /\ served.left[Len(served.left)] = middleware[Len(middleware)]

\* C37: the engine routes every inbound envelope to at most one path,
\* decided in this order: result or error present, the response path,
\* even if a method is present too (no handler runs, nothing is sent,
\* the envelope is handed to the channel stored under its id or
\* dropped); otherwise method and id present, the request path (one
\* response with the id is sent, the request handler alone runs);
\* otherwise method present, the notification path (the notification
\* handler alone runs, nothing is sent); otherwise the envelope is
\* ignored: no handler runs, nothing is sent, nothing changes.
C37_RouteOrder ==
    [][\A t \in Tasks, msg \in RouteEnvelopes :
         handleMessage(t, msg, "ok", FALSE) =>
            IF msg.result # NilRaw \/ msg.error # NilErr
            THEN /\ sent' = sent /\ handlerCalls' = handlerCalls
                 /\ dispatched' = dispatched
                 /\ IF msg.id \in DOMAIN pendingRequests
                    THEN /\ tmsg'[t] = msg
                         /\ tchan'[t] = pendingRequests[msg.id]
                    ELSE UNCHANGED taskVars
            ELSE IF msg.method # "" /\ msg.id # NilID
            THEN /\ Len(sent') = Len(sent) + 1
                 /\ sent'[Len(sent')].msg.id = msg.id
                 /\ sent'[Len(sent')].msg.method = ""
                 /\ handlerCalls'.notification = handlerCalls.notification
                 /\ handlerCalls'.request =
                      handlerCalls.request +
                        (IF RequestHandlerInvoked(msg, requestHandlers)
                         THEN 1 ELSE 0)
                 /\ UNCHANGED taskVars
            ELSE IF msg.method # ""
            THEN /\ sent' = sent
                 /\ handlerCalls'.request = handlerCalls.request
                 /\ handlerCalls'.notification =
                      handlerCalls.notification +
                        (IF NotificationHandlerInvoked(
                              msg, notificationHandlers)
                         THEN 1 ELSE 0)
                 /\ UNCHANGED taskVars
            ELSE UNCHANGED vars]_vars

\* An envelope with a result, a registered method and the id of a
\* pending request is being handed to that request, after a request and
\* a notification of the peer were served and nothing else was sent to
\* the peer but the request and the one response.
C37_Witness ==
    /\ \E t \in Tasks :
         /\ tpc[t] = "deliver"
         /\ tmsg[t].method \in requestHandlers
         /\ tmsg[t].result # NilRaw
         /\ tmsg[t].id \in DOMAIN pendingRequests
    /\ handlerCalls = [request |-> 1, notification |-> 1]
    /\ dispatched = 2
    /\ Len(sent) = 2

\* C38: no interleaving lets handleResponse send on a response channel
\* that Request has already closed: a response that is being dispatched
\* while its Request returns (cancellation, timeout, send failure or an
\* earlier response) never causes a send-on-closed-channel panic.
C38_NoSendOnClosedChannel ==
    [][\A t \in Tasks :
         HandleResponseSend(t) =>
            /\ ~responseChan[tchan[t]].closed
            /\ ~panicked']_vars

\* C40: the teardown of a push-stream session is race-free with respect
\* to its inbound queue: no POST handler that found the session before
\* the teardown sends on the closed requestChan (the POST that does gets
\* no answer), and the session's reader never calls the messageHandler
\* with the nil envelope it reads from the closed channel.
C40_TeardownRaceFree ==
    /\ lastPost.status # -1
    /\ ~panicked

\* What the Send call number n has put on the pipe.
TokensOf(n) == SelectSeq(pipeOut, LAMBDA tok : tok.call = n)

\* The Send call number n has returned nil.
SentWhole(n) == sendCalls[n].returned /\ sendCalls[n].err = NilErr

\* C34: on the pipe transport concurrent Send calls never interleave
\* bytes.  What is on the pipe is the frames of the Send calls in the
\* order in which they took the transport's mu, each the JSON of one
\* envelope followed by one newline, whole and flushed for every Send
\* that returned nil; only the Send that holds mu, or one whose write
\* to the pipe failed and after which nothing is written, has less than
\* its frame there.  A Send after Close writes nothing and returns an
\* error.
C34_WholeFramesInOrder ==
    /\ \A i, j \in 1..Len(pipeOut) :
         i < j => pipeOut[i].call <= pipeOut[j].call
    /\ \A n \in 1..Len(sendCalls) :
         /\ SentWhole(n) =>
              /\ TokensOf(n) = Frame(n)
              /\ \A i \in 1..Len(writer.buf) : writer.buf[i].call # n
         /\ sendCalls[n].closedBefore =>
              /\ TokensOf(n) = << >>
              /\ sendCalls[n].err = ErrTransportClosed
         /\ TokensOf(n) \notin {<< >>, Frame(n)} =>
              /\ \A i \in 1..Len(pipeOut) : pipeOut[i].call <= n
              /\ \/ ~sendCalls[n].returned /\ wmu = sendCalls[n].sender
                 \/ /\ writer.err # NilErr
                    /\ sendCalls[n].err \notin {NilErr, ErrTransportClosed}

\* Two goroutines have sent, one after the other, and both frames are on
\* the pipe in that order; a third Send, after Close, has returned the
\* error and written nothing.
C34_Witness ==
    /\ Len(sendCalls) = 3
    /\ sendCalls[1].sender # sendCalls[2].sender
    /\ SentWhole(1) /\ SentWhole(2)
    /\ pipeOut = Frame(1) \o Frame(2)
    /\ sendCalls[3].closedBefore /\ sendCalls[3].returned
    /\ sendCalls[3].err = ErrTransportClosed

\* No POST was made with the id of a POST in flight.
DistinctInFlight == \A e \in Exchanges : ~exchange[e].overlapped

\* The Send call k has put its envelope on the channel it found.
Delivered(k) ==
    hsend[k].pc = "done" /\ hsend[k].found /\ hsend[k].err = NilErr

\* C32: on the request/reply HTTP server, provided the ids of in-flight
\* POSTs are pairwise distinct, the envelope passed to Send with id i is
\* written as the body of the exchange whose request carried id i and
\* of no other, each exchange receives at most one envelope, and when
\* the exchange ends (reply, timeout or cancel) its id is no longer in
\* the pending table.
C32_CorrelatedByID ==
    DistinctInFlight =>
        /\ \A k \in SendTasks :
             hsend[k].found =>
                exchange[hsend[k].target].id = hsend[k].msg.id
        /\ \A e \in Exchanges :
             /\ exchange[e].written <= 1
             /\ exchange[e].body # NoMessage =>
                  /\ exchange[e].body.id = exchange[e].id
                  /\ \E k \in SendTasks :
                       /\ Delivered(k)
                       /\ hsend[k].target = e
                       /\ hsend[k].msg = exchange[e].body
             /\ (exchange[e].buf # << >>) =>
                  exchange[e].buf[1].id = exchange[e].id
             /\ (exchange[e].registered
                   /\ exchange[e].pc \in {"close", "return"}) =>
                  exchange[e].id \notin DOMAIN pendingExchanges
             /\ (exchange[e].registered /\ exchange[e].pc = "done") =>
                  PendingLookup(pendingExchanges, exchange[e].id).target
                     # e

\* Two POSTs with different ids were in flight together; each was
\* answered with the response that carries its id, the second one
\* first, and both have ended.
C32_Witness ==
    /\ DistinctInFlight
    /\ \A e \in Exchanges :
         /\ exchange[e].pc = "done"
         /\ exchange[e].outcome = "response"
         /\ exchange[e].body.id = exchange[e].id
    /\ exchange[1].id # exchange[2].id
    /\ hsend[1].target = 2 /\ hsend[2].target = 1
    /\ pendingExchanges = << >>

\* C33: the HTTP status of a request/reply exchange identifies its
\* outcome: 200 when the correlated response was sent in time, 408 when
\* the wait timed out, a status of its own when the client cancelled,
\* and 500 when no message handler is registered, in which case no
\* pending slot is created; a notification POST (no id) gets 200 at once
\* without waiting for its handler.
C33_StatusByOutcome ==
    \A e \in Exchanges :
        /\ exchange[e].outcome = "response" =>
             exchange[e].status = 200 /\ exchange[e].body # NoMessage
        /\ exchange[e].outcome = "timeout" => exchange[e].status = 408
        /\ exchange[e].outcome = "cancel" =>
             exchange[e].status \notin {200, 408, 500}
        /\ exchange[e].outcome = "nohandler" =>
             /\ exchange[e].status = 500
             /\ ~exchange[e].registered
             /\ ~exchange[e].handlerStarted
        /\ exchange[e].outcome = "notification" =>
             /\ exchange[e].status = 200
             /\ exchange[e].id = NilID
             /\ ~exchange[e].registered
             /\ exchange[e].handlerStarted

\* C39: on the request/reply HTTP server no interleaving lets Send write
\* to the response channel of a pending exchange after ServeHTTP has
\* closed it: a response produced while its exchange is timing out or
\* being cancelled is delivered to that exchange or discarded, and never
\* causes a send-on-closed-channel panic.
C39_NoSendOnClosedExchange ==
    [][\A k \in SendTasks :
         HTTPSendSelect(k, "send") =>
            /\ ~exchange[hsend[k].target].chanClosed
            /\ ~panicked']_vars

\* The server answered the request of call c with status 200 and a
\* response that carries the request's id.
AnswersCall(answer, c) ==
    /\ answer.status = 200
    /\ answer.body # NoMessage
    /\ answer.body.id = callID[c]

C36_NotificationReturnsNil ==
    [][\A m \in OutboundMethods :
         (NotificationHTTP(m, FALSE,
                           ExchangeAnswer("notification", NoMessage))
            /\ ~closed) =>
               notifications'[Len(notifications')] = NilErr]_vars

====
